---- MODULE Spec2Model ----
(***************************************************************************)
(* Nova core server: the CLI plugin's StreamingPTYSession, the            *)
(* ClaudeCLIPlugin, the PluginRegistry and the WebSocket JSON-RPC         *)
(* transport, as one state machine.                                        *)
(*                                                                         *)
(* One action is one macrotask of the Node.js event loop: a socket event,  *)
(* a PTY data or exit event, a timer.  Every `await` of the handlers that  *)
(* resolves without I/O (start() has no suspension point, so the whole     *)
(* agent.invoke chain is such) continues in microtasks of the same         *)
(* macrotask and belongs to the same action.  The only suspension that     *)
(* spans macrotasks is the 5 s grace timer of StreamingPTYSession.stop().  *)
(***************************************************************************)
EXTENDS Integers, Sequences, FiniteSets, TLC

\* ---------------------------------------------------------------- bounds
MaxChunks == 1        \* PTY data events per session
MaxPending == 1       \* stop() calls waiting in their grace window
MaxCallbacks == 2     \* stream callbacks registered on one session
MaxIds == 3           \* session ids in one bulk deletion
MaxSegment == 2       \* characters in one directory name
MaxStream == 4        \* characters of output in one stream

Sockets == {"w1", "w2"}
SessionIds == {1, 2}
UnknownSession == 1 + Cardinality(SessionIds)   \* an id no session ever has
NoExit == -1          \* exitCode = null
NotSubscribed == 0 - 1  \* autoSubAt of a session nobody was auto-subscribed to

\* The records the subprocess may print, one token per JSON text:
\*   I1, I2  {"type":"system","subtype":"init","session_id":U1|U2}
\*   R2      {"type":"result","session_id":U2}
\*   A       {"type":"assistant"}
\*   X       text that is not JSON
\*   NL      the newline, CR whitespace that trim() removes
JsonTokens == {"I1", "I2", "R2", "A"}
\* What the subprocess prints in the runs of the whole server, where the content
\* of the output does not matter, and in the runs of one session.
ServerChunks == { <<"A", "NL">> }
SessionChunks == { <<"I1", "NL">>, <<"A", "NL">>, <<"X", "NL">>,
                   <<"I1", "NL", "I2", "NL">>, <<"I1", "NL", "R2", "NL">> }
\* The characters of a stream of output cut into chunks at any place, and the
\* streams of at most MaxStream characters.
StreamTokens == {"A", "X", "NL", "CR"}
\* Output cut anywhere: a line without its newline, a line that is not JSON
\* between whitespace and followed by a JSON line, an unterminated rest.
LineChunks == { <<"X">>, <<"A">>, <<"A", "NL", "X">>, <<"I1", "NL">>, <<"X", "NL">>,
                <<"CR", "X", "CR", "NL", "A", "NL">>, <<"X", "NL", "I1", "NL", "A">> }

TokType(t) ==
  CASE t \in {"I1", "I2"} -> "system"
    [] t = "R2" -> "result"
    [] t = "A" -> "assistant"
    [] OTHER -> "other"
TokSubtype(t) == IF t \in {"I1", "I2"} THEN "init" ELSE "none"
TokSessionId(t) ==
  CASE t = "I1" -> 1
    [] t \in {"I2", "R2"} -> 2
    [] OTHER -> 0

\* ---------------------------------------------------------------- state
VARIABLES
  \* WebSocketNovaServer
  connections,           \* Set<WebSocket>
  sessionSubscriptions,  \* Map<sessionId, Set<WebSocket>>
  wsState,               \* readyState of each socket
  listening,             \* the HTTP/WS listener accepts connections
  serverState,           \* "running" | "stopping" | "stopped"  (stop())
  \* PluginRegistry
  plugins,               \* names of the registered plugins
  sessionToPlugin,       \* keys of the session -> plugin map
  \* ClaudeCLIPlugin
  sessions,              \* keys of the plugin's session map
  \* StreamingPTYSession, per session id
  state,                 \* _state
  ptyProcess,            \* the ptyProcess field is non-null
  claudeSessionId,       \* _claudeSessionId, 0 is ''
  lineBuffer,
  callbacks,             \* one entry per registered callback: the number of
                         \* events the session had emitted when it was added
  exitCode,
  \* the subprocess and the timers
  proc,                  \* "none" | "alive" | "dead" (exit not yet reported) | "reaped"
  signals,               \* signals delivered to the live subprocess
  chunks,                \* PTY data events so far
  pending,               \* stop() calls waiting for their 5 s timer, oldest first
  \* what has been observed
  nextId,                \* sessions constructed so far + 1
  events,                \* every event a session has emitted, in order
  out,                   \* frames written to sockets by the last step, in order
  emitted,               \* the events the last step emitted, and the sockets
                         \* subscribed to their session when it did
  request,               \* the JSON-RPC frame the last step received, if any
  created,               \* sessions the registry emitted session:created for
  ended,                 \* session:ended emitted by the registry, per session
  thrown,                \* the callbacks of a session that have thrown so far
  invoker,               \* the socket whose agent.invoke was answered with the session
  replyCid,              \* claudeSessionId of that answer
  autoSubAt,             \* events emitted when the invoker was auto-subscribed
  stopDone,              \* sessions for which a session.stop that waited has resolved
  \* the functions outside the server: those that keep no state between calls,
  \* and the legacy spawner
  call                   \* the last call of one of them: its arguments and its result;
                         \* for spawnClaude its closure, child and registry

vars == << connections, sessionSubscriptions, wsState, listening, serverState,
           plugins, sessionToPlugin, sessions, state, ptyProcess,
           claudeSessionId, lineBuffer, callbacks, exitCode, proc, signals,
           chunks, pending, nextId, events, out, emitted, request, created,
           ended, thrown, invoker, replyCid, autoSubAt, stopDone, call >>

transportVars == << connections, sessionSubscriptions, wsState, listening, serverState >>
registryVars == << plugins, sessionToPlugin, sessions >>
sessionVars == << state, ptyProcess, claudeSessionId, lineBuffer, callbacks, exitCode >>
procVars == << proc, signals, chunks >>
ghostVars == << invoker, replyCid, autoSubAt, stopDone, thrown, call >>
emitterVars == << created, ended >>
serverVars == << transportVars, registryVars, sessionVars, procVars, pending,
                nextId, events, out, emitted, request, emitterVars, invoker,
                replyCid, autoSubAt, stopDone, thrown >>

\* ---------------------------------------------------------------- helpers
RECURSIVE SetToSeq(_)
SetToSeq(S) ==
  IF S = {} THEN << >>
  ELSE LET x == CHOOSE y \in S : TRUE
       IN  << x >> \o SetToSeq(S \ {x})

RECURSIVE Count(_, _)
Count(seq, type) ==
  IF seq = << >> THEN 0
  ELSE (IF Head(seq).type = type THEN 1 ELSE 0) + Count(Tail(seq), type)

\* String.prototype.split('\n') followed by lines.pop(): the complete lines
\* and the unterminated rest.
RECURSIVE Split(_, _, _)
Split(data, cur, acc) ==
  IF data = << >> THEN [lines |-> acc, rest |-> cur]
  ELSE IF Head(data) = "NL" THEN Split(Tail(data), << >>, Append(acc, cur))
  ELSE Split(Tail(data), Append(cur, Head(data)), acc)

RECURSIVE TrimLeft(_)
TrimLeft(line) ==
  IF line # << >> /\ Head(line) = "CR" THEN TrimLeft(Tail(line)) ELSE line
RECURSIVE TrimRight(_)
TrimRight(line) ==
  IF line # << >> /\ line[Len(line)] = "CR"
  THEN TrimRight(SubSeq(line, 1, Len(line) - 1)) ELSE line
Trim(line) == TrimRight(TrimLeft(line))

\* JSON.parse succeeds on exactly one JSON text.
ParseOK(line) == Len(line) = 1 /\ line[1] \in JsonTokens

Event(type, line, raw, cid, code) ==
  [type |-> type, line |-> line, raw |-> raw, cid |-> cid, code |-> code]

\* A frame written to a socket: a JSON-RPC response (result or error) or a
\* session.event notification carrying event number idx of session sid.
Frame(kind, to, id, sid, idx, code, cid, ok, list) ==
  [kind |-> kind, to |-> to, id |-> id, sid |-> sid, idx |-> idx, code |-> code,
   cid |-> cid, ok |-> ok, list |-> list, error |-> ""]
NoId == 0 - 1        \* the id of a frame that has none (a notification)
NullId == 0 - 2      \* id: null
NoSession == 0 - 1   \* the sid of a frame that names no session
Result(to, id, sid, cid, ok) == Frame("result", to, id, sid, 0, 0, cid, ok, {})
\* The result of session.message: { success, error }.
MessageResult(to, id, r) ==
  [Result(to, id, NoSession, 0, r.success) EXCEPT !.error = r.error]
Error(to, id, code) == Frame("error", to, id, NoSession, 0, code, 0, FALSE, {})

\* The frame a step received: socket, id, method and, for agent.invoke, the
\* plugin and agent it names.
Request(ws, id, method, pl, ag) ==
  [ws |-> ws, id |-> id, method |-> method, plugin |-> pl, agent |-> ag,
   start |-> "", sid |-> NoSession]
NoRequest == Request("nobody", NoId, "", "", "")

\* A session.* request and the session id it names.
SessionRequest(ws, id, method, sid) ==
  [Request(ws, id, method, "", "") EXCEPT !.sid = sid]

\* An agent.invoke that reached session.start(), and what start() met:
\* "prompt required", "binary not found", "path missing" or "spawned".
Invoke(ws, id, pl, ag, start) ==
  [Request(ws, id, "agent.invoke", pl, ag) EXCEPT !.start = start]

\* No event emitted by the last step.
NoEmit == [sid |-> NoSession, first |-> 0, n |-> 0, subs |-> {},
           recorded |-> FALSE, registered |-> 0, called |-> {}, threw |-> {}]

INTERNAL_ERROR == -32603
METHOD_NOT_FOUND == -32601
PARSE_ERROR == -32700
PLUGIN_NOT_FOUND == -32001
AGENT_NOT_FOUND == -32002
SESSION_NOT_FOUND == -32003

\* ------------------------------------------------- StreamingPTYSession
\* The part of a session that a line of output can change: S.st is _state,
\* S.cid is _claudeSessionId, S.ev the events emitted so far by this call.
EmitOutput(S, line) ==
  [S EXCEPT !.ev = Append(@, Event("output", line, FALSE, 0, NoExit))]

\* A faulty handleInit: the output event emitted before the init event.
HandleInitOutputFirst(S, line) ==
  LET sessionId == TokSessionId(line[1])
      cid == IF sessionId # 0 THEN sessionId ELSE S.cid
      T == EmitOutput([S EXCEPT !.st = "ready", !.cid = cid], line)
  IN  [T EXCEPT !.ev = Append(@, Event("init", line, FALSE, cid, NoExit))]

HandleInit(S, line) ==
  LET sessionId == TokSessionId(line[1])
      cid == IF sessionId # 0 THEN sessionId ELSE S.cid
      T == [st |-> "ready", cid |-> cid,
            ev |-> Append(S.ev, Event("init", line, FALSE, cid, NoExit))]
  IN  EmitOutput(T, line)

HandleResult(S, line) ==
  LET sessionId == TokSessionId(line[1])
      cid == IF sessionId # 0 /\ S.cid = 0 THEN sessionId ELSE S.cid
  IN  EmitOutput([S EXCEPT !.st = "idle", !.cid = cid], line)

HandleMessage(S, line) ==
  LET type == TokType(line[1])
      subtype == TokSubtype(line[1])
  IN  CASE type = "system" /\ subtype = "init" -> HandleInit(S, line)
        [] type = "system" /\ subtype # "init" -> EmitOutput(S, line)
        [] type = "assistant" -> EmitOutput([S EXCEPT !.st = "processing"], line)
        [] type = "result" -> HandleResult(S, line)
        [] OTHER -> EmitOutput(S, line)

\* A faulty processLine: a line that is not JSON also puts the session in
\* the error state.
ProcessLineRawFails(S, line) ==
  IF ParseOK(line) THEN HandleMessage(S, line)
  ELSE [S EXCEPT !.st = "error",
                 !.ev = Append(@, Event("output", line, TRUE, 0, NoExit))]

ProcessLine(S, line) ==
  IF ParseOK(line) THEN HandleMessage(S, line)
  ELSE [S EXCEPT !.ev = Append(@, Event("output", line, TRUE, 0, NoExit))]

RECURSIVE ProcessLines(_, _)
ProcessLines(S, lines) ==
  IF lines = << >> THEN S
  ELSE LET trimmed == Trim(Head(lines))
       IN  ProcessLines(IF trimmed = << >> THEN S ELSE ProcessLine(S, trimmed),
                        Tail(lines))

\* A faulty handleData: the unterminated rest of the previous chunk is dropped.
HandleDataNoBuffer(buffer, S, data) ==
  LET sp == Split(data, << >>, << >>)
  IN  [buffer |-> sp.rest, S |-> ProcessLines(S, sp.lines)]

\* handleData on a session with line buffer buffer: the new line buffer and
\* the session after the complete lines.
HandleDataFrom(buffer, S, data) ==
  LET sp == Split(buffer \o data, << >>, << >>)
  IN  [buffer |-> sp.rest, S |-> ProcessLines(S, sp.lines)]

\* handleData on session s; S.ev holds the events of this call only.
HandleData(s, data) ==
  HandleDataFrom(lineBuffer[s],
                 [st |-> state[s], cid |-> claudeSessionId[s], ev |-> << >>], data)

\* The output of a subprocess as the PTY hands it over: stream cut after the
\* positions of cuts.
RECURSIVE ChunksOf(_, _, _)
ChunksOf(stream, cuts, from) ==
  IF from > Len(stream) THEN << >>
  ELSE LET ends == {c \in cuts : c >= from} \cup {Len(stream)}
           to == CHOOSE c \in ends : \A d \in ends : c <= d
       IN  << SubSeq(stream, from, to) >> \o ChunksOf(stream, cuts, to + 1)

\* A new session before any output.
NewSession == [st |-> "initializing", cid |-> 0, ev |-> << >>]

\* handleData called with each chunk in turn: the line buffer and the session
\* (S.ev: every event so far) after each call.
RECURSIVE FeedChunks(_, _, _)
FeedChunks(buffer, S, chunkSeq) ==
  IF chunkSeq = << >> THEN << >>
  ELSE LET r == HandleDataFrom(buffer, S, Head(chunkSeq))
       IN  << r >> \o FeedChunks(r.buffer, r.S, Tail(chunkSeq))

\* One subprocess printing stream, delivered in the chunks of cuts.
HandleDataCall(stream, cuts) ==
  /\ call' = [fn |-> "handleData", stream |-> stream,
              chunks |-> ChunksOf(stream, cuts, 1),
              after |-> FeedChunks(<< >>, NewSession, ChunksOf(stream, cuts, 1))]
  /\ UNCHANGED serverVars

\* A faulty handleExit: no complete event for a session that stop() has marked
\* stopped.
HandleExitUnlessStopped(s, code) ==
  [st |-> IF code = 0 THEN "stopped" ELSE "error",
   code |-> code,
   ev |-> IF state[s] = "stopped" THEN << >>
          ELSE << Event("complete", << >>, FALSE, claudeSessionId[s], code) >>]

\* handleExit: state, exit code and the complete event.
HandleExit(s, code) ==
  [st |-> IF code = 0 THEN "stopped" ELSE "error",
   code |-> code,
   ev |-> << Event("complete", << >>, FALSE, claudeSessionId[s], code) >>]

\* The OPEN sockets of a session's subscription set, in the set's order.
OpenSubscribers(sid) ==
  IF sid \notin DOMAIN sessionSubscriptions THEN << >>
  ELSE SetToSeq({w \in sessionSubscriptions[sid] : wsState[w] = "open"})

\* A fault of the callbacks during one step: the callbacks whose ws.send fails,
\* and the position in the socket loop of the send that fails (0: none does).
NoFault == [throwing |-> {}, failAt |-> 0]

\* Callback i of session s throws under fault f.
Throws(s, i, f) ==
  /\ i \in f.throwing
  /\ f.failAt # 0
  /\ f.failAt <= Len(OpenSubscribers(s))

\* WebSocketNovaServer.broadcastSessionEvent: one frame per OPEN socket of the
\* session's subscription set, up to the send that throws.
BroadcastSessionEvent(sid, idx, failAt) ==
  LET T == OpenSubscribers(sid)
      n == IF failAt = 0 \/ failAt > Len(T) THEN Len(T) ELSE failAt - 1
  IN  [j \in 1 .. n |-> Frame("event", T[j], NoId, sid, idx, 0, 0, FALSE, {})]

\* A faulty emitEvent: no try/catch, the first callback that throws ends the loop.
CallbacksCalledUntilThrow(s, f) ==
  {i \in 1 .. Len(callbacks[s]) : \A j \in 1 .. (i - 1) : ~Throws(s, j, f)}

\* emitEvent: the callbacks that are called with an event.  The try/catch
\* around each call keeps the loop going past a callback that throws.
CallbacksCalled(s, f) == 1 .. Len(callbacks[s])

\* The frames the callbacks i, i+1, ... of session s write for event idx; every
\* callback is a transport fan-out (subscribeToSession registers no other kind).
RECURSIVE CallbackFrames(_, _, _, _)
CallbackFrames(s, idx, f, i) ==
  IF i > Len(callbacks[s]) THEN << >>
  ELSE (IF i \in CallbacksCalled(s, f)
        THEN BroadcastSessionEvent(s, idx, IF i \in f.throwing THEN f.failAt ELSE 0)
        ELSE << >>)
       \o CallbackFrames(s, idx, f, i + 1)

\* emitEvent: the frames written for one event.
EmitEvent(s, idx, f) == CallbackFrames(s, idx, f, 1)

\* The frames written while a session emits k events, the first numbered idx.
RECURSIVE EmitEvents(_, _, _, _)
EmitEvents(s, idx, k, f) ==
  IF k = 0 THEN << >> ELSE EmitEvent(s, idx, f) \o EmitEvents(s, idx + 1, k - 1, f)

\* Session s emits its next k events: what is recorded of it.
Emitted(s, k, f) ==
  IF k = 0 THEN NoEmit
  ELSE [sid |-> s, first |-> Len(events[s]) + 1, n |-> k,
        subs |-> IF s \in DOMAIN sessionSubscriptions
                 THEN sessionSubscriptions[s] ELSE {},
        recorded |-> s \in created,
        registered |-> Len(callbacks[s]),
        called |-> CallbacksCalled(s, f),
        threw |-> {i \in CallbacksCalled(s, f) : Throws(s, i, f)}]

\* A step that writes frames and emits no event.
Writes(frames) == out' = frames /\ emitted' = NoEmit

\* The synchronous part of stop(): up to the grace timer.  kill() on a
\* subprocess that is already dead either throws or does nothing.
StopSync(s, throws) ==
  IF ~ptyProcess[s]
  THEN [st |-> state[s], pty |-> FALSE, sig |-> signals[s], waits |-> FALSE]
  ELSE IF proc[s] = "alive"
  THEN [st |-> "stopped", pty |-> TRUE, sig |-> signals[s] \cup {"SIGTERM"},
        waits |-> TRUE]
  ELSE IF throws
  THEN [st |-> "stopped", pty |-> FALSE, sig |-> signals[s], waits |-> FALSE]
  ELSE [st |-> "stopped", pty |-> TRUE, sig |-> signals[s], waits |-> TRUE]

\* A faulty grace timer: SIGKILL whatever has become of the subprocess.
StopKillAlways(s) == signals[s] \cup {"SIGKILL"}

\* A faulty grace timer: no SIGKILL.
StopKillNever(s) == signals[s]

\* The grace timer of stop(): SIGKILL if the exit has not been handled.
StopKill(s) ==
  IF ptyProcess[s] /\ proc[s] = "alive" THEN signals[s] \cup {"SIGKILL"}
  ELSE signals[s]

\* A faulty sendMessage: it refuses only while the session is busy.
SendMessageWhenIdle(s) == state[s] \notin {"initializing", "processing"}

\* sendMessage: hybrid mode never writes to the subprocess.
SendMessage(s) == FALSE

\* The error texts of a refused message.
ResumeHint == "create a new session with resumeSessionId"
NotFound == "session not found"

\* status: the coarsening of _state the ISession view shows.
Status(st) ==
  CASE st = "initializing" -> "starting"
    [] st \in {"ready", "processing", "idle"} -> "running"
    [] st = "error" -> "error"
    [] st = "stopped" -> "stopped"
    [] OTHER -> "running"

\* ------------------------------------------------------ PluginRegistry
PluginName == "claude_cli"
ManifestAgents == {"sonnet", "opus"}
EnabledAgents == {"sonnet"}

\* A faulty getPluginForSession: the one registered plugin is returned without
\* the session-to-plugin map being consulted.
GetPluginForAnySession(sid) == PluginName \in plugins

GetPluginForSession(sid) == sid \in sessionToPlugin /\ PluginName \in plugins

\* registry.message -> plugin.message -> session.sendMessage: the success flag.
Message(sid) ==
  IF ~GetPluginForSession(sid) THEN FALSE
  ELSE IF sid \notin sessions THEN FALSE
  ELSE SendMessage(sid)

\* The MessageResult of registry.message: success as above, and the error of
\* whoever refused, the registry or the plugin (not found) or the session.
MessageOutcome(sid) ==
  [success |-> Message(sid),
   error |-> IF ~GetPluginForSession(sid) \/ sid \notin sessions THEN NotFound
             ELSE IF ~SendMessage(sid) THEN ResumeHint
             ELSE ""]

\* registry.invoke's checks; "" when it goes on to plugin.invoke.
InvokeError(pl, ag) ==
  IF pl \notin plugins THEN "plugin not found"
  ELSE IF ag \notin ManifestAgents THEN "agent not found"
  ELSE IF ag \notin EnabledAgents THEN "agent disabled"
  ELSE ""

\* ----------------------------------------------------------- transport
\* subscribeToSession: the subscription table after ws subscribes to sid.
SubscribeToSession(ws, sid) ==
  [k \in DOMAIN sessionSubscriptions \cup {sid} |->
     IF k = sid
     THEN (IF sid \in DOMAIN sessionSubscriptions
           THEN sessionSubscriptions[sid] ELSE {}) \cup {ws}
     ELSE sessionSubscriptions[k]]

\* subscribeToSession registers a stream callback when it creates the entry and
\* the registry and the plugin both know the session.
RegistersCallback(sid) ==
  /\ sid \notin DOMAIN sessionSubscriptions
  /\ GetPluginForSession(sid)
  /\ sid \in sessions

\* A faulty removal: ws is deleted from the sets, emptied entries are kept.
RemoveSocketKeepEntry(subs, ws, sids) ==
  [k \in DOMAIN subs |-> IF k \in sids THEN subs[k] \ {ws} ELSE subs[k]]

\* A faulty removal: the whole entry of a session ws was subscribed to is deleted.
RemoveSocketEntry(subs, ws, sids) ==
  LET keep == {k \in DOMAIN subs : k \notin sids \/ ws \notin subs[k]}
  IN  [k \in keep |-> subs[k]]

\* Removing ws from sid's set, the entry deleted when the set empties
\* (handleSessionUnsubscribe, and the close handler for every sid).
RemoveSocket(subs, ws, sids) ==
  LET keep == {k \in DOMAIN subs : k \notin sids \/ subs[k] \ {ws} # {}}
  IN  [k \in keep |-> IF k \in sids THEN subs[k] \ {ws} ELSE subs[k]]

\* ---------------------------------------------------------------- Init
\* No call of a stateless function yet.
NoCall == [fn |-> "none"]

\* After construction and loader.discover(): the CLI plugin is registered,
\* the listener is bound, no socket is connected, no session exists.
Init ==
  /\ connections = {}
  /\ sessionSubscriptions = << >>
  /\ wsState = [w \in Sockets |-> "new"]
  /\ listening = TRUE
  /\ serverState = "running"
  /\ plugins = {PluginName}
  /\ sessionToPlugin = {}
  /\ sessions = {}
  /\ state = [s \in SessionIds |-> "none"]
  /\ ptyProcess = [s \in SessionIds |-> FALSE]
  /\ claudeSessionId = [s \in SessionIds |-> 0]
  /\ lineBuffer = [s \in SessionIds |-> << >>]
  /\ callbacks = [s \in SessionIds |-> << >>]
  /\ exitCode = [s \in SessionIds |-> NoExit]
  /\ proc = [s \in SessionIds |-> "none"]
  /\ signals = [s \in SessionIds |-> {}]
  /\ chunks = [s \in SessionIds |-> 0]
  /\ pending = << >>
  /\ nextId = 1
  /\ events = [s \in SessionIds |-> << >>]
  /\ out = << >>
  /\ emitted = NoEmit
  /\ request = NoRequest
  /\ created = {}
  /\ ended = [s \in SessionIds |-> 0]
  /\ thrown = [s \in SessionIds |-> {}]
  /\ invoker = [s \in SessionIds |-> "nobody"]
  /\ replyCid = [s \in SessionIds |-> 0]
  /\ autoSubAt = [s \in SessionIds |-> NotSubscribed]
  /\ stopDone = {}
  /\ call = NoCall

\* The ids a client can name: those of the sessions constructed so far (their
\* ids are random, so no client names one before it exists) and an unknown id.
Constructed == 1 .. (nextId - 1)
KnownIds == Constructed \cup {UnknownSession}

\* ----------------------------------------------------- socket lifecycle
\* wss.on('connection')
Connect(ws) ==
  /\ listening
  /\ wsState[ws] = "new"
  /\ wsState' = [wsState EXCEPT ![ws] = "open"]
  /\ connections' = connections \cup {ws}
  /\ Writes(<< >>)
  /\ request' = NoRequest
  /\ UNCHANGED << sessionSubscriptions, listening, serverState, registryVars,
                  sessionVars, procVars, pending, nextId, events, emitterVars,
                  ghostVars >>

\* ws.on('close'): the socket has closed, whoever started the closing.
WsClose(ws) ==
  /\ wsState[ws] \in {"open", "closing"}
  /\ wsState' = [wsState EXCEPT ![ws] = "closed"]
  /\ connections' = connections \ {ws}
  /\ sessionSubscriptions' =
       RemoveSocket(sessionSubscriptions, ws, DOMAIN sessionSubscriptions)
  /\ Writes(<< >>)
  /\ request' = NoRequest
  /\ UNCHANGED << listening, serverState, registryVars, sessionVars, procVars,
                  pending, nextId, events, emitterVars, ghostVars >>

\* ------------------------------------------------------- agent.invoke
Prompts == {"", "hello"}

\* A faulty agent.invoke: the session is constructed and stored in the plugin's
\* map before the plugin and the agent are checked.
InvokeRejectedAfterStore(ws, id, pl, ag, prompt) ==
  /\ wsState[ws] = "open"
  /\ InvokeError(pl, ag) # ""
  /\ nextId \in SessionIds
  /\ sessions' = sessions \cup {nextId}
  /\ state' = [state EXCEPT ![nextId] = "initializing"]
  /\ nextId' = nextId + 1
  /\ Writes(<< Error(ws, id, INTERNAL_ERROR) >>)
  /\ request' = Request(ws, id, "agent.invoke", pl, ag)
  /\ UNCHANGED << transportVars, plugins, sessionToPlugin, ptyProcess,
                  claudeSessionId, lineBuffer, callbacks, exitCode, procVars,
                  pending, events, emitterVars, ghostVars >>

\* registry.invoke throws (plugin or agent not found, agent disabled; the
\* plugin's own invoke repeats the agent checks and is never reached):
\* nothing is constructed, handleRequest answers with INTERNAL_ERROR.
InvokeRejected(ws, id, pl, ag, prompt) ==
  /\ wsState[ws] = "open"
  /\ InvokeError(pl, ag) # ""
  /\ Writes(<< Error(ws, id, INTERNAL_ERROR) >>)
  /\ request' = Request(ws, id, "agent.invoke", pl, ag)
  /\ UNCHANGED << transportVars, registryVars, sessionVars, procVars, pending,
                  nextId, events, emitterVars, ghostVars >>

\* findClaudeBinary() throws inside start(): the session was constructed and
\* stored in the plugin's map, start() rejects, so do plugin.invoke and
\* registry.invoke; handleRequest answers with INTERNAL_ERROR.
InvokeNoBinary(ids, ws, id, pl, ag, prompt) ==
  /\ wsState[ws] = "open"
  /\ InvokeError(pl, ag) = "" /\ prompt = "hello"
  /\ nextId \in ids
  /\ sessions' = sessions \cup {nextId}
  /\ state' = [state EXCEPT ![nextId] = "initializing"]
  /\ nextId' = nextId + 1
  /\ Writes(<< Error(ws, id, INTERNAL_ERROR) >>)
  /\ request' = Invoke(ws, id, pl, ag, "binary not found")
  /\ UNCHANGED << transportVars, plugins, sessionToPlugin, ptyProcess,
                  claudeSessionId, lineBuffer, callbacks, exitCode, procVars,
                  pending, events, emitterVars, ghostVars >>

\* What the rest of the invoke chain does once start() has returned: the
\* registry records the session and emits session:created, the transport
\* subscribes the invoking socket and registers its stream callback,
\* handleRequest sends the result.
InvokeReturns(ws, id, sid, early) ==
  /\ sessions' = sessions \cup {sid}
  /\ sessionToPlugin' = sessionToPlugin \cup {sid}
  /\ created' = created \cup {sid}
  /\ sessionSubscriptions' = SubscribeToSession(ws, sid)
  /\ callbacks' = [callbacks EXCEPT ![sid] = Append(@, Len(early))]
  /\ events' = [events EXCEPT ![sid] = early]
  /\ out' = << Result(ws, id, sid, claudeSessionId[sid], TRUE) >>
  /\ emitted' = Emitted(sid, Len(early), NoFault)
  /\ invoker' = [invoker EXCEPT ![sid] = ws]
  /\ replyCid' = [replyCid EXCEPT ![sid] = claudeSessionId[sid]]
  /\ autoSubAt' = [autoSubAt EXCEPT ![sid] = Len(early)]
  /\ nextId' = nextId + 1

\* start() returns early: the prompt is empty, or the project path and its
\* /my/projects/ -> /my_projects/ correction are both missing.  The session is in
\* state error, an error event was emitted to no subscriber, start() resolves, and
\* the invoke goes on as for a started session.
InvokeStartError(ids, ws, id, pl, ag, prompt, binaryFound, pathExists, fixedExists) ==
  /\ wsState[ws] = "open"
  /\ InvokeError(pl, ag) = ""
  /\ nextId \in ids
  /\ \/ prompt = ""
     \/ prompt # "" /\ binaryFound /\ ~pathExists /\ ~fixedExists
  /\ state' = [state EXCEPT ![nextId] = "error"]
  /\ InvokeReturns(ws, id, nextId,
                   << Event("error", << >>, FALSE, 0, NoExit) >>)
  /\ request' = Invoke(ws, id, pl, ag,
                       IF prompt = "" THEN "prompt required" ELSE "path missing")
  /\ UNCHANGED << connections, wsState, listening, serverState, plugins,
                  ptyProcess, claudeSessionId, lineBuffer, exitCode, procVars,
                  pending, ended, stopDone, thrown, call >>

\* start() spawns the subprocess: state processing, onData and onExit attached.
InvokeSpawn(ids, ws, id, pl, ag, prompt, binaryFound, pathExists, fixedExists) ==
  /\ wsState[ws] = "open"
  /\ InvokeError(pl, ag) = "" /\ prompt = "hello"
  /\ nextId \in ids
  /\ binaryFound /\ (pathExists \/ fixedExists)
  /\ state' = [state EXCEPT ![nextId] = "processing"]
  /\ ptyProcess' = [ptyProcess EXCEPT ![nextId] = TRUE]
  /\ proc' = [proc EXCEPT ![nextId] = "alive"]
  /\ InvokeReturns(ws, id, nextId, << >>)
  /\ request' = Invoke(ws, id, pl, ag, "spawned")
  /\ UNCHANGED << connections, wsState, listening, serverState, plugins,
                  claudeSessionId, lineBuffer, exitCode, signals, chunks,
                  pending, ended, stopDone, thrown, call >>

\* ------------------------------------------------------------ the PTY
\* What a step of session s that emits k events under fault f records.
Emits(s, k, f) ==
  /\ out' = EmitEvents(s, Len(events[s]) + 1, k, f)
  /\ emitted' = Emitted(s, k, f)
  /\ thrown' = IF k = 0 THEN thrown
               ELSE [thrown EXCEPT ![s] = @ \cup Emitted(s, k, f).threw]

\* ptyProcess.onData: a chunk of output arrives.  The handler stays attached
\* after stop() has dropped the handle, until the exit is reported.
PtyData(s, data, f) ==
  /\ proc[s] \in {"alive", "dead"}
  /\ chunks[s] < MaxChunks
  /\ f.throwing \subseteq 1 .. Len(callbacks[s])
  /\ LET r == HandleData(s, data)
     IN  /\ lineBuffer' = [lineBuffer EXCEPT ![s] = r.buffer]
         /\ state' = [state EXCEPT ![s] = r.S.st]
         /\ claudeSessionId' = [claudeSessionId EXCEPT ![s] = r.S.cid]
         /\ events' = [events EXCEPT ![s] = @ \o r.S.ev]
         /\ Emits(s, Len(r.S.ev), f)
  /\ chunks' = [chunks EXCEPT ![s] = @ + 1]
  /\ request' = NoRequest
  /\ UNCHANGED << transportVars, registryVars, ptyProcess, callbacks, exitCode,
                  proc, signals, pending, nextId, emitterVars, invoker,
                  replyCid, autoSubAt, stopDone, call >>

\* The subprocess ends, on its own or because of a signal; node-pty has not
\* reported it yet.
ProcDie(s) ==
  /\ proc[s] = "alive"
  /\ proc' = [proc EXCEPT ![s] = "dead"]
  /\ Writes(<< >>)
  /\ request' = NoRequest
  /\ UNCHANGED << transportVars, registryVars, sessionVars, signals, chunks,
                  pending, nextId, events, emitterVars, ghostVars >>

ExitCodes == {0, 1}

\* ptyProcess.onExit -> handleExit(exitCode)
PtyExit(s, code, f) ==
  /\ proc[s] = "dead"
  /\ f.throwing \subseteq 1 .. Len(callbacks[s])
  /\ proc' = [proc EXCEPT ![s] = "reaped"]
  /\ LET r == HandleExit(s, code)
     IN  /\ exitCode' = [exitCode EXCEPT ![s] = r.code]
         /\ state' = [state EXCEPT ![s] = r.st]
         /\ events' = [events EXCEPT ![s] = @ \o r.ev]
         /\ Emits(s, Len(r.ev), f)
  /\ ptyProcess' = [ptyProcess EXCEPT ![s] = FALSE]
  /\ request' = NoRequest
  /\ UNCHANGED << transportVars, registryVars, claudeSessionId, lineBuffer,
                  callbacks, signals, chunks, pending, nextId, emitterVars,
                  invoker, replyCid, autoSubAt, stopDone, call >>

\* ------------------------------------------------- session.* requests
\* session.message
SessionMessage(ws, id, sid) ==
  /\ wsState[ws] = "open"
  /\ sid \in KnownIds
  /\ Writes(<< MessageResult(ws, id, MessageOutcome(sid)) >>)
  /\ request' = SessionRequest(ws, id, "session.message", sid)
  /\ UNCHANGED << transportVars, registryVars, sessionVars, procVars, pending,
                  nextId, events, emitterVars, ghostVars >>

\* session.subscribe
SessionSubscribe(ws, id, sid) ==
  /\ wsState[ws] = "open"
  /\ sid \in KnownIds
  /\ RegistersCallback(sid) => Len(callbacks[sid]) < MaxCallbacks
  /\ sessionSubscriptions' = SubscribeToSession(ws, sid)
  /\ callbacks' = IF RegistersCallback(sid)
                  THEN [callbacks EXCEPT ![sid] = Append(@, Len(events[sid]))]
                  ELSE callbacks
  /\ Writes(<< Result(ws, id, sid, 0, TRUE) >>)
  /\ request' = SessionRequest(ws, id, "session.subscribe", sid)
  /\ UNCHANGED << connections, wsState, listening, serverState, registryVars,
                  state, ptyProcess, claudeSessionId, lineBuffer, exitCode,
                  procVars, pending, nextId, events, emitterVars, ghostVars >>

\* session.unsubscribe
SessionUnsubscribe(ws, id, sid) ==
  /\ wsState[ws] = "open"
  /\ sid \in KnownIds
  /\ sessionSubscriptions' = RemoveSocket(sessionSubscriptions, ws, {sid})
  /\ Writes(<< Result(ws, id, sid, 0, TRUE) >>)
  /\ request' = SessionRequest(ws, id, "session.unsubscribe", sid)
  /\ UNCHANGED << connections, wsState, listening, serverState, registryVars,
                  sessionVars, procVars, pending, nextId, events, emitterVars,
                  ghostVars >>

\* registry.getSessions(): the sessions of every registered plugin's own map.
GetSessions == IF PluginName \in plugins THEN sessions ELSE {}

\* registry.getSession(sid) finds the session.
GetSession(sid) == GetPluginForSession(sid) /\ sid \in sessions

\* A session.list answer: the listed sessions.
ListResult(to, id, listed) == Frame("result", to, id, NoSession, 0, 0, 0, TRUE, listed)

\* session.list
SessionList(ws, id) ==
  /\ wsState[ws] = "open"
  /\ Writes(<< ListResult(ws, id, GetSessions) >>)
  /\ request' = Request(ws, id, "session.list", "", "")
  /\ UNCHANGED << transportVars, registryVars, sessionVars, procVars, pending,
                  nextId, events, emitterVars, ghostVars >>

\* session.get: handleSessionGet throws for a session the registry does not
\* find, and handleRequest answers every thrown error with INTERNAL_ERROR.
SessionGet(ws, id, sid) ==
  /\ wsState[ws] = "open"
  /\ sid \in KnownIds
  /\ Writes(<< IF GetSession(sid) THEN Result(ws, id, sid, 0, TRUE)
                ELSE Error(ws, id, INTERNAL_ERROR) >>)
  /\ request' = SessionRequest(ws, id, "session.get", sid)
  /\ UNCHANGED << transportVars, registryVars, sessionVars, procVars, pending,
                  nextId, events, emitterVars, ghostVars >>

\* A method handleRequest's switch does not know.
UnknownMethod(ws, id) ==
  /\ wsState[ws] = "open"
  /\ Writes(<< Error(ws, id, METHOD_NOT_FOUND) >>)
  /\ request' = Request(ws, id, "no.such.method", "", "")
  /\ UNCHANGED << transportVars, registryVars, sessionVars, procVars, pending,
                  nextId, events, emitterVars, ghostVars >>

\* A frame JSON.parse rejects: the message handler answers with id null.
Unparseable(ws) ==
  /\ wsState[ws] = "open"
  /\ Writes(<< Error(ws, NullId, PARSE_ERROR) >>)
  /\ request' = Request(ws, NoId, "unparseable", "", "")
  /\ UNCHANGED << transportVars, registryVars, sessionVars, procVars, pending,
                  nextId, events, emitterVars, ghostVars >>

\* session.stop, up to the answer or to the grace timer of StreamingPTYSession.stop().
\*   registry.stop: an unknown session is a warning, the answer is success.
\*   plugin.stop: a session the plugin does not hold returns at once.
\*   session.stop: see StopSync.
\* registry.stop emits session:ended once plugin.stop has resolved.
SessionStopWithin(cap, ws, id, sid, throws) ==
  /\ wsState[ws] = "open"
  /\ sid \in KnownIds
  /\ IF ~GetPluginForSession(sid)
     THEN /\ Writes(<< Result(ws, id, NoSession, 0, TRUE) >>)
          /\ UNCHANGED << registryVars, sessionVars, procVars, pending, ended >>
     ELSE IF sid \notin sessions
     THEN /\ sessionToPlugin' = sessionToPlugin \ {sid}
          /\ ended' = [ended EXCEPT ![sid] = @ + 1]
          /\ Writes(<< Result(ws, id, NoSession, 0, TRUE) >>)
          /\ UNCHANGED << plugins, sessions, sessionVars, procVars, pending >>
     ELSE LET r == StopSync(sid, throws)
          IN  /\ state' = [state EXCEPT ![sid] = r.st]
              /\ ptyProcess' = [ptyProcess EXCEPT ![sid] = r.pty]
              /\ signals' = [signals EXCEPT ![sid] = r.sig]
              /\ IF r.waits
                 THEN /\ Len(pending) < cap
                      /\ pending' = Append(pending,
                                           [sid |-> sid, origin |-> ws, id |-> id])
                      /\ Writes(<< >>)
                      /\ UNCHANGED << sessions, sessionToPlugin, ended >>
                 ELSE /\ sessions' = sessions \ {sid}
                      /\ sessionToPlugin' = sessionToPlugin \ {sid}
                      /\ ended' = [ended EXCEPT ![sid] = @ + 1]
                      /\ Writes(<< Result(ws, id, NoSession, 0, TRUE) >>)
                      /\ UNCHANGED pending
              /\ UNCHANGED << plugins, claudeSessionId, lineBuffer, callbacks,
                              exitCode, proc, chunks >>
  /\ request' = SessionRequest(ws, id, "session.stop", sid)
  /\ UNCHANGED << transportVars, nextId, events, created, ghostVars >>

\* session.stop, with at most MaxPending stop() calls waiting for their timers.
SessionStop(ws, id, sid, throws) == SessionStopWithin(MaxPending, ws, id, sid, throws)

\* What registry.shutdown() and the rest of WebSocketNovaServer.stop() do once
\* every plugin.stop() of plugin.shutdown() has resolved.
ShutdownCompletes ==
  /\ plugins' = {}
  /\ sessionToPlugin' = {}
  /\ listening' = FALSE
  /\ serverState' = "stopped"

\* The 5 s timer of the oldest waiting stop() fires (equal delays fire in the
\* order they were set): SIGKILL if the exit was not handled, the handle and the
\* callbacks are dropped, plugin.stop() deletes the session, and the caller goes
\* on: registry.stop() and the answer, or plugin.shutdown().
StopTimer ==
  /\ pending # << >>
  /\ LET p == Head(pending)
         sid == p.sid
         last == \A i \in 2 .. Len(pending) : pending[i].origin # "shutdown"
     IN  /\ signals' = [signals EXCEPT ![sid] = StopKill(sid)]
         /\ ptyProcess' = [ptyProcess EXCEPT ![sid] = FALSE]
         /\ callbacks' = [callbacks EXCEPT ![sid] = << >>]
         /\ thrown' = [thrown EXCEPT ![sid] = {}]
         /\ stopDone' = IF p.origin = "shutdown" THEN stopDone ELSE stopDone \cup {sid}
         /\ IF p.origin = "shutdown"
            THEN /\ Writes(<< >>)
                 /\ UNCHANGED ended
                 /\ IF last
                    THEN /\ sessions' = {}
                         /\ ShutdownCompletes
                    ELSE /\ sessions' = sessions \ {sid}
                         /\ UNCHANGED << plugins, sessionToPlugin, listening,
                                         serverState >>
            ELSE /\ sessions' = sessions \ {sid}
                 /\ sessionToPlugin' = sessionToPlugin \ {sid}
                 /\ ended' = [ended EXCEPT ![sid] = @ + 1]
                 /\ Writes(IF wsState[p.origin] = "open"
                           THEN << Result(p.origin, p.id, NoSession, 0, TRUE) >>
                           ELSE << >>)
                 /\ UNCHANGED << plugins, listening, serverState >>
  /\ pending' = Tail(pending)
  /\ request' = NoRequest
  /\ UNCHANGED << connections, sessionSubscriptions, wsState, state,
                  claudeSessionId, lineBuffer, exitCode, proc, chunks, nextId,
                  events, created, invoker, replyCid, autoSubAt, call >>

\* WebSocketNovaServer.stop(), up to the end or to the grace timers: every
\* connection is closed, the tables are cleared, registry.shutdown() calls
\* plugin.shutdown(), which calls stop() on every session of its map.
ServerStop(throwers) ==
  /\ serverState = "running"
  /\ throwers \subseteq sessions
  /\ LET r == [s \in sessions |-> StopSync(s, s \in throwers)]
         waiting == {s \in sessions : r[s].waits}
         queue == SetToSeq(waiting)
     IN  /\ state' = [s \in SessionIds |-> IF s \in sessions THEN r[s].st ELSE state[s]]
         /\ ptyProcess' = [s \in SessionIds |->
                             IF s \in sessions THEN r[s].pty ELSE ptyProcess[s]]
         /\ signals' = [s \in SessionIds |->
                          IF s \in sessions THEN r[s].sig ELSE signals[s]]
         /\ pending' = pending \o
                       [i \in 1 .. Len(queue) |->
                          [sid |-> queue[i], origin |-> "shutdown", id |-> NoId]]
         /\ IF waiting = {}
            THEN /\ sessions' = {}
                 /\ ShutdownCompletes
            ELSE /\ sessions' = waiting
                 /\ serverState' = "stopping"
                 /\ UNCHANGED << plugins, sessionToPlugin, listening >>
  /\ wsState' = [w \in Sockets |-> IF w \in connections /\ wsState[w] = "open"
                                    THEN "closing" ELSE wsState[w]]
  /\ connections' = {}
  /\ sessionSubscriptions' = << >>
  /\ Writes(<< >>)
  /\ request' = NoRequest
  /\ UNCHANGED << claudeSessionId, lineBuffer, callbacks, exitCode, proc, chunks,
                  nextId, events, emitterVars, ghostVars >>

\* ------------------------------------------------ session transcripts
\* The session ids of one project; the transcript of id x is the file x.jsonl
\* in the project's directory (getSessionPath).
TranscriptIds == {"a", "b", "c"}

\* The lists of ids a bulk deletion is asked for, repeated ids included.
RECURSIVE ListsOf(_, _)
ListsOf(S, n) ==
  IF n = 0 THEN { << >> }
  ELSE ListsOf(S, n - 1)
         \cup {Append(l, x) : l \in {m \in ListsOf(S, n - 1) : Len(m) = n - 1}, x \in S}
IdLists == ListsOf(TranscriptIds, MaxIds)

\* The elements of a list.
Range(l) == {l[i] : i \in DOMAIN l}

\* deleteSession: unlink of the transcript; it fails when there is no such file
\* and when the file cannot be removed (locked), and deleteSession then throws.
DeleteSession(id, files, locked) ==
  LET ok == id \in files /\ id \notin locked
  IN  [ok |-> ok, files |-> IF ok THEN files \ {id} ELSE files]

\* deleteSessions: the loop from the i-th id on; acc holds deleted, failed and
\* the files on disk so far.
RECURSIVE DeleteFrom(_, _, _, _)
DeleteFrom(ids, i, locked, acc) ==
  IF i > Len(ids) THEN acc
  ELSE LET r == DeleteSession(ids[i], acc.files, locked)
       IN  DeleteFrom(ids, i + 1, locked,
             [deleted |-> IF r.ok THEN Append(acc.deleted, ids[i]) ELSE acc.deleted,
              failed |-> IF r.ok THEN acc.failed ELSE Append(acc.failed, ids[i]),
              files |-> r.files])
DeleteSessions(ids, files, locked) ==
  DeleteFrom(ids, 1, locked, [deleted |-> << >>, failed |-> << >>, files |-> files])

\* session.deleteBulk: deleteSessions is called on a project directory that
\* holds the transcripts `files`, of which `locked` cannot be removed.
DeleteBulk(ids, files, locked) ==
  /\ LET r == DeleteSessions(ids, files, locked)
     IN  call' = [fn |-> "deleteSessions", ids |-> ids, before |-> files,
                  deleted |-> r.deleted, failed |-> r.failed, after |-> r.files]
  /\ UNCHANGED serverVars

\* ---------------------------------------------------- project paths
\* The characters of a directory name: a lower-case letter, an upper-case one,
\* and the two that the encoding of a project id touches.
PathChars == {"a", "B", "-", "_"}
\* String.prototype.toLowerCase, on a character and on a string.
LowerChar(c) == IF c = "B" THEN "b" ELSE c
ToLowerCase(s) == [i \in DOMAIN s |-> LowerChar(s[i])]

\* A directory name is a non-empty string; a path is the list of its names,
\* << >> is the root.
Segments == ListsOf(PathChars, MaxSegment) \ { << >> }
Paths == ListsOf(Segments, 2)

\* The id of a project: its path with every '/' replaced by '-'.
RECURSIVE EncodePath(_)
EncodePath(P) ==
  IF P = << >> THEN << >> ELSE << "-" >> \o Head(P) \o EncodePath(Tail(P))

\* String.prototype.split('-'): the parts between the dashes, empty ones kept.
RECURSIVE SplitDash(_, _, _)
SplitDash(s, cur, acc) ==
  IF s = << >> THEN Append(acc, cur)
  ELSE IF Head(s) = "-" THEN SplitDash(Tail(s), << >>, Append(acc, cur))
  ELSE SplitDash(Tail(s), Append(cur, Head(s)), acc)

\* Array.prototype.filter(Boolean) on strings: the empty ones are dropped.
RECURSIVE FilterNonEmpty(_)
FilterNonEmpty(l) ==
  IF l = << >> THEN << >>
  ELSE (IF Head(l) = << >> THEN << >> ELSE << Head(l) >>) \o FilterNonEmpty(Tail(l))

\* entry.replace(/_/g, '-').split('-')
EntryParts(entry) ==
  SplitDash([i \in DOMAIN entry |-> IF entry[i] = "_" THEN "-" ELSE entry[i]],
            << >>, << >>)

\* The filesystem that contains exactly the directories of P, as the set of
\* its directories.
FsOf(P) == {SubSeq(P, 1, k) : k \in 0 .. Len(P)}

\* readdir: the names in a directory; it throws when the directory is missing.
Readdir(dir, fs) ==
  [ok |-> dir \in fs,
   entries |-> {d[Len(d)] : d \in {x \in fs : /\ Len(x) = Len(dir) + 1
                                             /\ SubSeq(x, 1, Len(dir)) = dir}}]

\* An entry matches the start of the remaining parts, case-insensitively.
IsMatch(entry, parts) ==
  LET ep == EntryParts(entry)
  IN  /\ Len(ep) <= Len(parts)
      /\ \A i \in DOMAIN ep : ToLowerCase(ep[i]) = ToLowerCase(parts[i])

\* The entries that match, and among them one that consumes the most parts
\* (the first such in readdir's order; with one entry per directory there is
\* no tie).
Matches(entries, parts) == {e \in entries : IsMatch(e, parts)}
BestMatch(entries, parts) ==
  CHOOSE e \in Matches(entries, parts) :
    \A o \in Matches(entries, parts) : Len(EntryParts(o)) <= Len(EntryParts(e))

\* The loop of resolveProjectPath.
MaxIterations == 100
RECURSIVE ResolveWalk(_, _, _, _)
ResolveWalk(parts, currentPath, iterations, fs) ==
  IF parts = << >> \/ iterations >= MaxIterations THEN currentPath
  ELSE LET r == Readdir(currentPath, fs)
       IN  IF ~r.ok THEN currentPath \o parts
           ELSE IF Matches(r.entries, parts) # {}
           THEN LET best == BestMatch(r.entries, parts)
                    consumed == Len(EntryParts(best))
                IN  ResolveWalk(SubSeq(parts, consumed + 1, Len(parts)),
                                Append(currentPath, best), iterations + 1, fs)
           ELSE ResolveWalk(Tail(parts), Append(currentPath, Head(parts)),
                            iterations + 1, fs)
ResolveProjectPath(dirName, fs) ==
  ResolveWalk(FilterNonEmpty(SplitDash(dirName, << >>, << >>)), << >>, 0, fs)

\* A project id is resolved on a filesystem that holds exactly the path it
\* encodes.
ResolveProject(P) ==
  /\ call' = [fn |-> "resolveProjectPath", path |-> P, dirName |-> EncodePath(P),
              resolved |-> ResolveProjectPath(EncodePath(P), FsOf(P))]
  /\ UNCHANGED serverVars

\* String.prototype.split('-') again, computed from the positions of the dashes
\* (the k-th part lies between the (k-1)-th and the k-th dash), for names too
\* long for the character-by-character SplitDash.
SplitAtDashes(s) ==
  LET D == {i \in DOMAIN s : s[i] = "-"}
      n == Cardinality(D)
      at(k) == IF k = 0 THEN 0
               ELSE IF k = n + 1 THEN Len(s) + 1
               ELSE CHOOSE p \in D : Cardinality({d \in D : d <= p}) = k
  IN  [k \in 1 .. (n + 1) |-> SubSeq(s, at(k - 1) + 1, at(k) - 1)]

\* A faulty iteration: the fallback consumes the next part without appending it.
ResolveStepDropping(parts, currentPath, fs) ==
  LET r == Readdir(currentPath, fs)
  IN  IF ~r.ok
      THEN [path |-> currentPath \o parts, parts |-> << >>, stop |-> TRUE]
      ELSE IF Matches(r.entries, parts) # {}
      THEN LET best == BestMatch(r.entries, parts)
           IN  [path |-> Append(currentPath, best),
                parts |-> SubSeq(parts, Len(EntryParts(best)) + 1, Len(parts)),
                stop |-> FALSE]
      ELSE [path |-> currentPath, parts |-> Tail(parts), stop |-> FALSE]

\* One iteration of the loop of resolveProjectPath, entered with parts not
\* empty: the path and the remaining parts after it, and whether it breaks.
ResolveStep(parts, currentPath, fs) ==
  LET r == Readdir(currentPath, fs)
  IN  IF ~r.ok
      THEN [path |-> currentPath \o parts, parts |-> << >>, stop |-> TRUE]
      ELSE IF Matches(r.entries, parts) # {}
      THEN LET best == BestMatch(r.entries, parts)
           IN  [path |-> Append(currentPath, best),
                parts |-> SubSeq(parts, Len(EntryParts(best)) + 1, Len(parts)),
                stop |-> FALSE]
      ELSE [path |-> Append(currentPath, Head(parts)), parts |-> Tail(parts),
            stop |-> FALSE]

\* The loop with what it leaves behind: the path, the parts not consumed when
\* it ended, the number of iterations and the parts consumed by each.
RECURSIVE ResolveLoop(_, _, _, _, _)
ResolveLoop(parts, currentPath, iterations, fs, consumed) ==
  IF parts = << >> \/ iterations >= MaxIterations
  THEN [path |-> currentPath, left |-> parts, iterations |-> iterations,
        consumed |-> consumed]
  ELSE LET t == ResolveStep(parts, currentPath, fs)
           used == Append(consumed, Len(parts) - Len(t.parts))
       IN  IF t.stop
           THEN [path |-> t.path, left |-> t.parts, iterations |-> iterations + 1,
                 consumed |-> used]
           ELSE ResolveLoop(t.parts, t.path, iterations + 1, fs, used)

\* The name with k parts "a", and the names around the iteration cap.
RECURSIVE LongName(_)
LongName(k) == IF k = 0 THEN << >> ELSE << "-", "a" >> \o LongName(k - 1)
LongNames == {LongName(k) : k \in (MaxIterations - 1) .. (MaxIterations + 1)}

\* Filesystems that do not depend on the name: the root alone, one directory
\* that is one part, two parts with either separator, nested ones, and a chain
\* of directories a/a/... deeper than the iteration cap.
Filesystems ==
  { FsOf(Q) : Q \in { << >>, << <<"a">> >>, << <<"a", "_", "B">> >>,
                      << <<"a", "-", "a">>, <<"B">> >>,
                      << <<"a">>, <<"a">> >>, << <<"B", "_">> >>,
                      [i \in 1 .. (MaxIterations + 1) |-> <<"a">>] } }

\* Any project id is resolved on any filesystem.
ResolveOn(dirName, fs) ==
  /\ call' = [fn |-> "resolveProjectPathOn", dirName |-> dirName, fs |-> fs,
              run |-> ResolveLoop(FilterNonEmpty(SplitAtDashes(dirName)),
                                  << >>, 0, fs, << >>)]
  /\ UNCHANGED serverVars

\* --------------------------------------------------------- ConfigLoader
\* The plugin and agent names a configuration lists or is asked about.
ConfigPlugins == {"claude_cli", "other"}
ConfigAgents == {"sonnet", "opus"}

\* NovaConfig.plugins after NovaConfigSchema.parse: per listed plugin its
\* enabled flag and, when hasAgents, the booleans of the agents it lists.
AgentConfigs == UNION {[S -> BOOLEAN] : S \in SUBSET ConfigAgents}
PluginConfigs ==
  [enabled : BOOLEAN, hasAgents : {TRUE}, agents : AgentConfigs]
    \cup [enabled : BOOLEAN, hasAgents : {FALSE}, agents : [{} -> BOOLEAN]]
Configs == UNION {[L -> PluginConfigs] : L \in SUBSET ConfigPlugins}

\* ConfigLoader.isPluginEnabled
IsPluginEnabled(config, pluginName) ==
  IF pluginName \notin DOMAIN config THEN TRUE
  ELSE config[pluginName].enabled

\* A faulty isAgentEnabled: the agent's own entry is consulted before the
\* plugin's enabled flag.
IsAgentEnabledAgentFirst(config, pluginName, agentId) ==
  IF pluginName \notin DOMAIN config THEN TRUE
  ELSE IF config[pluginName].hasAgents
          /\ agentId \in DOMAIN config[pluginName].agents
  THEN config[pluginName].agents[agentId]
  ELSE config[pluginName].enabled

\* ConfigLoader.isAgentEnabled
IsAgentEnabled(config, pluginName, agentId) ==
  IF pluginName \notin DOMAIN config THEN TRUE
  ELSE IF ~config[pluginName].enabled THEN FALSE
  ELSE IF ~config[pluginName].hasAgents THEN TRUE
  ELSE IF agentId \in DOMAIN config[pluginName].agents
  THEN config[pluginName].agents[agentId]
  ELSE TRUE

\* One call of each.
PluginEnabledCall(config, p) ==
  /\ call' = [fn |-> "isPluginEnabled", config |-> config, plugin |-> p,
              result |-> IsPluginEnabled(config, p)]
  /\ UNCHANGED serverVars
AgentEnabledCall(config, p, a) ==
  /\ call' = [fn |-> "isAgentEnabled", config |-> config, plugin |-> p,
              agent |-> a, result |-> IsAgentEnabled(config, p, a)]
  /\ UNCHANGED serverVars

\* --------------------------------------------------------- PluginLoader
\* The steps of loadPlugin at which a plugin directory can fail.
LoadSteps == {"noManifest", "unparseable", "invalid", "noEntry", "importThrows",
              "noFactory", "factoryThrows", "initializeThrows"}

\* A plugin directory: the name and the agent ids its plugin.json declares,
\* and the step at which loading it fails ("invalid": a field the schema
\* checks is missing or ill-typed).
AgentLists == { << "sonnet" >>, << "sonnet", "opus" >>, << "sonnet", "sonnet" >> }
PluginDirs == [name : ConfigPlugins, agents : AgentLists,
               fails : LoadSteps \cup {"none"}]
DirLists == ListsOf(PluginDirs, 2)

\* The configurations the loader runs under: plugins listed as enabled or
\* disabled, or not listed.
LoaderConfigs == {c \in Configs : \A p \in DOMAIN c : ~c[p].hasAgents}

\* PluginManifestSchema.parse: the name, version, type, source, supports,
\* entry and agents fields are present and well-typed.  It holds no check on
\* the agent ids besides their being strings.
PluginManifestSchema(dir) == dir.fails # "invalid"

\* loadManifest: the manifest, or null (here a record without a name) when
\* the file does not parse or the schema rejects it.
NullManifest == [ok |-> FALSE]
LoadManifest(dir) ==
  IF dir.fails = "unparseable" \/ ~PluginManifestSchema(dir) THEN NullManifest
  ELSE [ok |-> TRUE, name |-> dir.name, agents |-> dir.agents]

\* PluginRegistry.register: the plugin is stored under its name, replacing
\* one of the same name; here with the directory it came from.
Register(acc, i, manifest) ==
  [registry |-> [n \in DOMAIN acc.registry \cup {manifest.name} |->
                   IF n = manifest.name THEN manifest.agents ELSE acc.registry[n]],
   registrations |-> Append(acc.registrations, i),
   loaded |-> acc.loaded \cup {manifest.name}]

\* loadPlugin for the i-th directory: every early return and every caught
\* error leaves the registry as it was.
LoadPlugin(dirs, i, config, acc) ==
  LET dir == dirs[i]
      manifest == LoadManifest(dir)
  IN  IF dir.fails = "noManifest" THEN acc
      ELSE IF ~manifest.ok THEN acc
      ELSE IF ~IsPluginEnabled(config, manifest.name) THEN acc
      ELSE IF dir.fails \in {"noEntry", "importThrows", "noFactory",
                             "factoryThrows", "initializeThrows"} THEN acc
      ELSE Register(acc, i, manifest)

\* A faulty discover: no try/catch in the loop and loadPlugin rethrows, the
\* first directory that fails ends the scan.
RECURSIVE DiscoverFromUntilFailure(_, _, _, _)
DiscoverFromUntilFailure(dirs, i, config, acc) ==
  IF i > Len(dirs) \/ dirs[i].fails \notin {"none", "noManifest"} THEN acc
  ELSE DiscoverFromUntilFailure(dirs, i + 1, config, LoadPlugin(dirs, i, config, acc))

\* discover: the loop over the directories, from the i-th on.
RECURSIVE DiscoverFrom(_, _, _, _)
DiscoverFrom(dirs, i, config, acc) ==
  IF i > Len(dirs) THEN acc
  ELSE DiscoverFrom(dirs, i + 1, config, LoadPlugin(dirs, i, config, acc))

\* PluginLoader.discover() on an empty registry.
Discover(dirs, config) ==
  /\ LET r == DiscoverFrom(dirs, 1, config,
                [registry |-> << >>, registrations |-> << >>, loaded |-> {}])
     IN  call' = [fn |-> "discover", dirs |-> dirs, config |-> config,
                  registry |-> r.registry, registrations |-> r.registrations,
                  loaded |-> r.loaded]
  /\ UNCHANGED serverVars

\* ------------------------------------------------------ legacy spawner
\* spawnClaude: one call with its closure (sessionId, resolved, outputBuffer),
\* the child process and the SessionRegistry map, kept in call.
\*   child     "running", "exited" (the exit event was handled), "failed" (the
\*             spawn failed and the error event was handled)
\*   killed    childProcess.killed: a kill() of this process delivered a signal
\*   outcome   the promise: "pending", "resolved", "rejected"
TempId == 1 + UnknownSession
LegacyChunks == { <<"I1", "NL">>, <<"I2", "NL">>, <<"A", "NL">>, <<"X", "NL">>,
                  <<"I1">>, <<"NL">> }

\* The call of spawnClaude, up to the return of the promise.
SpawnClaude ==
  /\ call = NoCall
  /\ call' = [fn |-> "spawnClaude", child |-> "running", killed |-> FALSE,
              sessionId |-> 0, resolved |-> FALSE, outcome |-> "pending",
              timer |-> "armed", outputBuffer |-> << >>, sessions |-> {},
              chunks |-> 0, output |-> 0]
  /\ UNCHANGED serverVars

\* extractSessionId
ExtractSessionId(line) ==
  IF ParseOK(line) /\ TokType(line[1]) = "system" /\ TokSubtype(line[1]) = "init"
  THEN TokSessionId(line[1]) ELSE 0

\* The stdout handler's loop over the complete lines: c is the closure and the
\* registry so far.
RECURSIVE LegacyLines(_, _)
LegacyLines(c, lines) ==
  IF lines = << >> THEN c
  ELSE LET line == Head(lines)
           append(d) == IF d.sessionId # 0 /\ d.sessionId \in d.sessions
                        THEN [d EXCEPT !.output = 1] ELSE d
           found == [c EXCEPT !.sessionId = ExtractSessionId(Trim(line)),
                              !.sessions = @ \cup {ExtractSessionId(Trim(line))},
                              !.resolved = TRUE,
                              !.outcome = IF c.resolved THEN @ ELSE "resolved"]
           next == IF Trim(line) = << >> THEN c
                   ELSE IF ~ParseOK(Trim(line)) THEN append(c)
                   ELSE IF c.sessionId = 0 /\ ExtractSessionId(Trim(line)) # 0
                   THEN append(found)
                   ELSE append(c)
       IN  LegacyLines(next, Tail(lines))

\* childProcess.stdout.on('data')
LegacyData(data) ==
  /\ call.fn = "spawnClaude"
  /\ call.child = "running"
  /\ call.chunks <= MaxChunks + 1
  /\ LET sp == Split(call.outputBuffer \o data, << >>, << >>)
         c == LegacyLines([call EXCEPT !.output = 0], sp.lines)
     IN  call' = [c EXCEPT !.outputBuffer = sp.rest, !.chunks = @ + 1]
  /\ UNCHANGED serverVars

\* childProcess.on('exit'): the session is removed when the closure has its id.
LegacyExit ==
  /\ call.fn = "spawnClaude"
  /\ call.child = "running"
  /\ call' = [call EXCEPT !.child = "exited",
                          !.output = 0,
                          !.sessions = IF call.sessionId # 0
                                       THEN @ \ {call.sessionId} ELSE @]
  /\ UNCHANGED serverVars

\* childProcess.on('error'): the spawn failed.
LegacyError ==
  /\ call.fn = "spawnClaude"
  /\ call.child = "running"
  /\ call.chunks = 0
  /\ ~call.killed
  /\ call' = [call EXCEPT !.child = "failed",
                          !.resolved = TRUE,
                          !.outcome = IF call.resolved THEN @ ELSE "rejected"]
  /\ UNCHANGED serverVars

\* SessionRegistry.killSession of a registered session: SIGTERM; killed is set
\* when the signal is delivered; on a child that has exited the call changes
\* nothing.  (Its later SIGKILL is sent only when killed is still false.)
LegacyKill ==
  /\ call.fn = "spawnClaude"
  /\ call.sessionId \in call.sessions
  /\ ~call.killed
  /\ call.child = "running"
  /\ call' = [call EXCEPT !.killed = TRUE, !.output = 0]
  /\ UNCHANGED serverVars

\* The 10 s timer: without a session id, a temporary id is registered unless
\* childProcess.killed is set, and then the promise is rejected.
LegacyTimeout ==
  /\ call.fn = "spawnClaude"
  /\ call.timer = "armed"
  /\ call' =
       IF call.resolved THEN [call EXCEPT !.timer = "fired", !.output = 0]
       ELSE IF call.sessionId = 0 /\ ~call.killed
       THEN [call EXCEPT !.timer = "fired", !.output = 0, !.resolved = TRUE,
                         !.sessionId = TempId, !.sessions = @ \cup {TempId},
                         !.outcome = "resolved"]
       ELSE [call EXCEPT !.timer = "fired", !.output = 0, !.resolved = TRUE,
                         !.outcome = IF call.sessionId = 0 THEN "rejected" ELSE @]
  /\ UNCHANGED serverVars

\* ---------------------------------------------------------------- Next
\* The agent.invoke requests the clients send: a good one, and one for each way
\* registry.invoke refuses.
InvokeRequests ==
  { [plugin |-> PluginName, agent |-> "sonnet"],
    [plugin |-> "missing", agent |-> "sonnet"],
    [plugin |-> PluginName, agent |-> "unknown"],
    [plugin |-> PluginName, agent |-> "opus"] }
\* A good one and a refused one, where the reason of the refusal does not matter.
TwoRequests ==
  { [plugin |-> PluginName, agent |-> "sonnet"],
    [plugin |-> "missing", agent |-> "sonnet"] }

\* The request ids the clients use: one id where the id does not matter, two
\* ids and none (a notification) where it does.
OneId == {1}
AnyId == {NoId, 1, 2}

\* The faults of the callbacks: none, or any set of them failing at their
\* first send.
NoFaults == {NoFault}
AnyFault == {NoFault} \cup [throwing : SUBSET (1 .. MaxCallbacks) \ {{}}, failAt : {1}]

\* Sockets connecting and closing.
Clients(socks) ==
  \/ \E ws \in socks : Connect(ws)
  \/ \E ws \in socks : WsClose(ws)

\* agent.invoke, by its outcome.
Invokes(socks, ids, rids, reqs) ==
  \/ \E ws \in socks, id \in rids, r \in reqs, prompt \in Prompts :
       InvokeRejected(ws, id, r.plugin, r.agent, prompt)
  \/ \E ws \in socks, id \in rids, r \in reqs, prompt \in Prompts :
       InvokeNoBinary(ids, ws, id, r.plugin, r.agent, prompt)
  \/ \E ws \in socks, id \in rids, r \in reqs, prompt \in Prompts,
        b \in BOOLEAN, pe \in BOOLEAN, fe \in BOOLEAN :
       InvokeStartError(ids, ws, id, r.plugin, r.agent, prompt, b, pe, fe)
  \/ \E ws \in socks, id \in rids, r \in reqs, prompt \in Prompts,
        b \in BOOLEAN, pe \in BOOLEAN, fe \in BOOLEAN :
       InvokeSpawn(ids, ws, id, r.plugin, r.agent, prompt, b, pe, fe)

\* The subprocess printing and ending.
Output(ids, chunkSet, faults) ==
  \E s \in ids, data \in chunkSet, f \in faults : PtyData(s, data, f)
Subprocess(ids, faults) ==
  \/ \E s \in ids : ProcDie(s)
  \/ \E s \in ids, code \in ExitCodes, f \in faults : PtyExit(s, code, f)

\* session.subscribe, session.unsubscribe, session.message.
Streams(socks, ids, rids) ==
  \/ \E ws \in socks, id \in rids, sid \in ids : SessionSubscribe(ws, id, sid)
  \/ \E ws \in socks, id \in rids, sid \in ids : SessionUnsubscribe(ws, id, sid)
Messages(socks, ids, rids) ==
  \E ws \in socks, id \in rids, sid \in ids \cup {UnknownSession} :
    SessionMessage(ws, id, sid)

\* session.list, session.get, and the frames handleRequest has no handler for.
Queries(socks, ids, rids) ==
  \/ \E ws \in socks, id \in rids : SessionList(ws, id)
  \/ \E ws \in socks, id \in rids, sid \in ids \cup {UnknownSession} :
       SessionGet(ws, id, sid)
  \/ \E ws \in socks, id \in rids : UnknownMethod(ws, id)
  \/ \E ws \in socks : Unparseable(ws)

\* session.stop, the grace timers, and the server's own stop().
Stops(socks, ids, rids) ==
  \/ \E ws \in socks, id \in rids, sid \in ids \cup {UnknownSession},
        throws \in BOOLEAN :
       SessionStop(ws, id, sid, throws)
  \/ StopTimer
Shutdown(ids) == \E throwers \in SUBSET ids : ServerStop(throwers)

\* The server with the clients socks, the session ids ids to give out and a
\* subprocess that prints chunks of chunkSet.
NextOn(socks, ids, chunkSet) ==
  \/ Clients(socks)
  \/ Invokes(socks, ids, OneId, TwoRequests)
  \/ Output(ids, chunkSet, NoFaults)
  \/ Subprocess(ids, NoFaults)
  \/ Streams(socks, ids, OneId)
  \/ Messages(socks, ids, OneId)
  \/ Stops(socks, ids, OneId)
  \/ Shutdown(ids)

\* Two clients and one session: the transport's subscriptions and fan-out.
NextTransport ==
  \/ Clients(Sockets)
  \/ Invokes(Sockets, {1}, OneId, TwoRequests)
  \/ Output({1}, ServerChunks, NoFaults)
  \/ Subprocess({1}, NoFaults)
  \/ Streams(Sockets, {1}, OneId)
  \/ Stops(Sockets, {1}, OneId)
Spec == Init /\ [][NextTransport]_vars

\* One session and its client, with every kind of output.
SpecSession == Init /\ [][NextOn({"w1"}, {1}, SessionChunks)]_vars

\* Two clients and two sessions around the server's stop(): no output, no
\* subscription requests.
NextShutdown ==
  \/ Clients(Sockets)
  \/ Invokes(Sockets, SessionIds, OneId, TwoRequests)
  \/ Subprocess(SessionIds, NoFaults)
  \/ Stops(Sockets, SessionIds, OneId)
  \/ Shutdown(SessionIds)
SpecShutdown == Init /\ [][NextShutdown]_vars

\* One client and one session, every method of the JSON-RPC dispatch, requests
\* with and without an id.
NextRpc ==
  \/ Clients({"w1"})
  \/ Invokes({"w1"}, {1}, AnyId, InvokeRequests)
  \/ Subprocess({1}, NoFaults)
  \/ Streams({"w1"}, {1}, AnyId)
  \/ Messages({"w1"}, {1}, AnyId)
  \/ Queries({"w1"}, {1}, AnyId)
  \/ Stops({"w1"}, {1}, AnyId)
  \/ Shutdown({1})
SpecRpc == Init /\ [][NextRpc]_vars

\* One client and one session whose callbacks may throw.
NextCallbacks ==
  \/ Clients({"w1"})
  \/ Invokes({"w1"}, {1}, OneId, TwoRequests)
  \/ Output({1}, ServerChunks, AnyFault)
  \/ Subprocess({1}, AnyFault)
  \/ Streams({"w1"}, {1}, OneId)
  \/ Stops({"w1"}, {1}, OneId)
SpecCallbacks == Init /\ [][NextCallbacks]_vars

\* Two clients and one session whose fan-out may fail at a send.
NextFanout ==
  \/ Clients(Sockets)
  \/ Invokes(Sockets, {1}, OneId, TwoRequests)
  \/ Output({1}, ServerChunks, AnyFault)
  \/ Subprocess({1}, AnyFault)
  \/ Streams(Sockets, {1}, OneId)
SpecFanout == Init /\ [][NextFanout]_vars

\* One client and one session, with one more session.stop than MaxPending
\* waiting for its grace timer: overlapping stop requests.
NextStops ==
  \/ Clients({"w1"})
  \/ Invokes({"w1"}, {1}, OneId, TwoRequests)
  \/ Subprocess({1}, NoFaults)
  \/ \E id \in {1, 2}, sid \in {1, UnknownSession}, throws \in BOOLEAN :
       SessionStopWithin(MaxPending + 1, "w1", id, sid, throws)
  \/ StopTimer
SpecStops == Init /\ [][NextStops]_vars

\* One client and one session whose output is cut anywhere, up to its exit.
NextLines ==
  \/ Clients({"w1"})
  \/ Invokes({"w1"}, {1}, OneId, TwoRequests)
  \/ Output({1}, LineChunks, NoFaults)
  \/ Subprocess({1}, NoFaults)
  \/ Streams({"w1"}, {1}, OneId)
SpecLines == Init /\ [][NextLines]_vars

\* One stream of output, delivered once in every way of cutting it.
Chunking ==
  /\ call = NoCall
  /\ \E stream \in ListsOf(StreamTokens, MaxStream) :
       \E cuts \in SUBSET (1 .. (Len(stream) - 1)) : HandleDataCall(stream, cuts)
SpecChunking == Init /\ [][Chunking]_vars

\* One call of the legacy spawner, its child and its timer.
NextLegacy ==
  \/ SpawnClaude
  \/ \E data \in LegacyChunks : LegacyData(data)
  \/ LegacyExit
  \/ LegacyError
  \/ LegacyKill
  \/ LegacyTimeout
SpecLegacy == Init /\ [][NextLegacy]_vars

\* resolveProjectPath on names and filesystems that are independent of each
\* other, names with more parts than the iteration cap included.
Resolving ==
  /\ call = NoCall
  /\ \E dirName \in {EncodePath(P) : P \in Paths} \cup LongNames, fs \in Filesystems :
       ResolveOn(dirName, fs)
SpecResolve == Init /\ [][Resolving]_vars

\* The stateless services, each called once with every input of its universe.
Transcripts ==
  /\ call = NoCall
  /\ \E ids \in IdLists, files \in SUBSET TranscriptIds :
       \E locked \in SUBSET files : DeleteBulk(ids, files, locked)
Projects ==
  /\ call = NoCall
  /\ \E P \in Paths : ResolveProject(P)
Configuration ==
  /\ call = NoCall
  /\ \E config \in Configs, p \in ConfigPlugins :
       \/ PluginEnabledCall(config, p)
       \/ \E a \in ConfigAgents : AgentEnabledCall(config, p, a)
Loading ==
  /\ call = NoCall
  /\ \E dirs \in DirLists, config \in LoaderConfigs : Discover(dirs, config)
NextServices ==
  \/ Transcripts
  \/ Projects
  \/ Configuration
  \/ Loading
SpecServices == Init /\ [][NextServices]_vars

\* ================================================================ claims
\* What the i-th registered callback of session s has received: the events
\* the session emitted after the callback was registered.
Received(s, i) == SubSeq(events[s], callbacks[s][i] + 1, Len(events[s]))

\* A line that handleMessage dispatches to handleInit.
IsInitRecord(line) ==
  /\ ParseOK(line)
  /\ TokType(line[1]) = "system"
  /\ TokSubtype(line[1]) = "init"

\* complete is received at most once and nothing is received after it.
CompleteIsLast(r) ==
  /\ Count(r, "complete") <= 1
  /\ \A j \in 1 .. Len(r) : r[j].type = "complete" => j = Len(r)

FramesFor(w, sid, idx) ==
  Cardinality({j \in DOMAIN out :
                 /\ out[j].kind = "event"
                 /\ out[j].to = w
                 /\ out[j].sid = sid
                 /\ out[j].idx = idx})

\* C2 as stated: each event a session emits is written exactly once to each
\* socket subscribed to the session at that moment, and to no other socket.
C2_ExactlyOncePerSubscriber ==
  \A idx \in emitted.first .. (emitted.first + emitted.n - 1) :
    \A w \in Sockets :
      FramesFor(w, emitted.sid, idx) = IF w \in emitted.subs THEN 1 ELSE 0

\* C3 as stated: once an upstream id has been captured, every later event of
\* the session that carries an upstream id (init, complete) carries the same id.
C3_UpstreamIdNeverChanges ==
  \A s \in SessionIds : \A i \in DOMAIN events[s], j \in DOMAIN events[s] :
    ( /\ i < j
      /\ events[s][i].type \in {"init", "complete"}
      /\ events[s][j].type \in {"init", "complete"}
      /\ events[s][i].cid # 0 )
    => events[s][j].cid = events[s][i].cid

\* C4: once a session.stop that found the subprocess handle has resolved, the
\* subprocess has exited or has been sent SIGKILL, the session is in neither
\* the registry's nor the plugin's map, and session.message answers false.
C4_StoppedIsGone ==
  \A s \in stopDone :
    /\ proc[s] \in {"dead", "reaped"} \/ "SIGKILL" \in signals[s]
    /\ s \notin sessionToPlugin
    /\ s \notin sessions
    /\ Message(s) = FALSE

\* A stop has resolved by SIGKILL on a subprocess that ignored SIGTERM.
C4_Witness ==
  \E s \in stopDone :
    /\ signals[s] = {"SIGTERM", "SIGKILL"}
    /\ proc[s] = "alive"
    /\ ~ptyProcess[s]

\* C5 as stated: once the server's stop() has resolved, no subprocess spawned
\* through agent.invoke is alive without having been signalled.
C5_NoneAliveAfterShutdown ==
  serverState = "stopped" =>
    \A s \in SessionIds : proc[s] = "alive" => signals[s] # {}

\* No registry operation is in mid-flight: no stop() waits for its timer.
Quiescent == pending = << >> /\ serverState # "stopping"

\* C6 as stated: whenever no registry operation is in mid-flight, the
\* registry's session map and the plugin's session map have the same keys.
C6_MapsAgree ==
  Quiescent => \A s \in SessionIds : s \in sessionToPlugin <=> s \in sessions

\* C7: a session has emitted exactly one complete event once its subprocess's
\* exit has been handled and none before; that event is its last and carries
\* the exit code and the captured upstream id.
C7_OneComplete ==
  \A s \in SessionIds :
    /\ Count(events[s], "complete") = IF proc[s] = "reaped" THEN 1 ELSE 0
    /\ proc[s] = "reaped" =>
         LET e == events[s][Len(events[s])]
         IN  /\ e.type = "complete"
             /\ exitCode[s] \in ExitCodes
             /\ e.code = exitCode[s]
             /\ e.cid = claudeSessionId[s]

\* A subprocess that printed its init record was stopped, and its exit was
\* handled after stop()'s timer.
C7_Witness ==
  \E s \in SessionIds :
    /\ proc[s] = "reaped"
    /\ "SIGTERM" \in signals[s]
    /\ s \in stopDone
    /\ claudeSessionId[s] # 0
    /\ Count(events[s], "complete") = 1

\* C8 as stated: for every agent.invoke answered with a session, the session
\* had emitted no event when the invoking socket was subscribed, and no
\* session.event of the session is written to that socket before the answer.
C8_SubscribedBeforeFirstEvent ==
  /\ \A s \in SessionIds : invoker[s] # "nobody" => autoSubAt[s] = 0
  /\ \A i \in DOMAIN out, j \in DOMAIN out :
       ~( /\ i < j
          /\ out[i].kind = "event"
          /\ out[j].kind = "result"
          /\ out[j].to = out[i].to
          /\ out[j].sid = out[i].sid )

\* C9 as stated: when the subprocess of an invoked session has printed an init
\* record with an upstream id, the answer to the agent.invoke carries an
\* upstream id captured from such a record.
C9_ReplyCarriesUpstreamId ==
  \A s \in SessionIds :
    ( /\ invoker[s] # "nobody"
      /\ \E i \in DOMAIN events[s] :
           events[s][i].type = "init" /\ events[s][i].cid # 0 )
    => \E i \in DOMAIN events[s] :
         events[s][i].type = "init" /\ events[s][i].cid = replyCid[s]

\* The sessions socket w is subscribed to in the table subs.
SubscriptionsOf(subs, w) == {k \in DOMAIN subs : w \in subs[k]}

\* C10: the step in which a socket closes removes the socket from every
\* subscription set; it leaves every other socket's subscriptions, the
\* registry's and the plugin's maps, every session and every subprocess as
\* they were, and starts no stop().
C10_CloseOnlyUnsubscribes ==
  [][ \A w \in Sockets :
        (wsState[w] # "closed" /\ wsState'[w] = "closed") =>
          /\ SubscriptionsOf(sessionSubscriptions', w) = {}
          /\ \A v \in Sockets \ {w} :
               SubscriptionsOf(sessionSubscriptions', v)
                 = SubscriptionsOf(sessionSubscriptions, v)
          /\ \A k \in DOMAIN sessionSubscriptions' :
               sessionSubscriptions'[k] # {}
          /\ UNCHANGED << registryVars, sessionVars, procVars, pending >>
    ]_vars

\* A socket that invoked a session has closed while another socket stays
\* subscribed to the session, whose subprocess runs on.
C10_Witness ==
  \E w \in Sockets, v \in Sockets, s \in SessionIds :
    /\ w # v
    /\ invoker[s] = w
    /\ wsState[w] = "closed"
    /\ s \in DOMAIN sessionSubscriptions
    /\ sessionSubscriptions[s] = {v}
    /\ proc[s] = "alive"
    /\ signals[s] = {}
    /\ s \in sessionToPlugin /\ s \in sessions

\* The responses (results and errors) among the frames the last step wrote.
Responses == {j \in DOMAIN out : out[j].kind \in {"result", "error"}}

\* The last step received a session.stop that waits for the grace timer: its
\* answer is still to come.
AnswerDeferred ==
  /\ request.method = "session.stop"
  /\ Responses = {}
  /\ pending # << >>
  /\ pending[Len(pending)].origin = request.ws
  /\ pending[Len(pending)].id = request.id

\* C11 as stated: a well-formed frame with an id is answered by exactly one
\* response, which carries that id and goes to the socket it came from; a
\* frame without an id is answered by none.
C11_OneResponsePerRequest ==
  IF request = NoRequest THEN Cardinality(Responses) <= 1
  ELSE IF request.method = "unparseable" THEN TRUE
  ELSE IF request.id = NoId THEN Responses = {}
  ELSE \/ AnswerDeferred
       \/ /\ Cardinality(Responses) = 1
          /\ \A j \in Responses :
               out[j].to = request.ws /\ out[j].id = request.id

\* The error code the specification gives the failure of the last request, 0
\* where it gives none.
ExpectedCode ==
  CASE request.method = "agent.invoke"
         /\ request.plugin \notin plugins -> PLUGIN_NOT_FOUND
    [] request.method = "agent.invoke"
         /\ request.plugin \in plugins
         /\ (request.agent \notin ManifestAgents
               \/ request.agent \notin EnabledAgents) -> AGENT_NOT_FOUND
    [] request.method = "session.get" -> SESSION_NOT_FOUND
    [] request.method = "no.such.method" -> METHOD_NOT_FOUND
    [] request.method = "unparseable" -> PARSE_ERROR
    [] OTHER -> 0

\* C12 as stated: plugin not found is answered with -32001, agent not found or
\* disabled with -32002, session not found with -32003, an unknown method with
\* -32601, an unparseable frame with -32700 and id null.
C12_ErrorCodes ==
  \A j \in Responses :
    (out[j].kind = "error" /\ ExpectedCode # 0) =>
      /\ out[j].code = ExpectedCode
      /\ request.method = "unparseable" => out[j].id = NullId

\* An agent.invoke that registry.invoke must refuse.
Refused(pl, ag) ==
  \/ pl \notin plugins
  \/ ag \notin ManifestAgents
  \/ ag \notin EnabledAgents

\* C13: a step that receives an agent.invoke for an unknown plugin, an unknown
\* agent or a disabled agent spawns no subprocess, constructs no session, adds
\* nothing to the plugin's or the registry's map, and emits no session:created.
C13_RefusedInvokeChangesNothing ==
  [][ ( /\ request'.method = "agent.invoke"
        /\ Refused(request'.plugin, request'.agent) )
      => UNCHANGED << registryVars, sessionVars, procVars, nextId, events,
                      created, ended >>
    ]_vars

\* An agent.invoke for a disabled agent has been answered with an error while
\* a session runs.
C13_Witness ==
  /\ request.method = "agent.invoke"
  /\ request.plugin \in plugins
  /\ request.agent \in ManifestAgents \ EnabledAgents
  /\ \E j \in Responses : out[j].kind = "error"
  /\ \E s \in SessionIds : proc[s] = "alive"

\* C14 as stated: a session invoked with success, whose subprocess was spawned,
\* is listed by session.list until it has emitted complete.
C14_ListedUntilComplete ==
  \A s \in SessionIds :
    ( /\ invoker[s] # "nobody"
      /\ proc[s] # "none"
      /\ Count(events[s], "complete") = 0 )
    => s \in GetSessions

\* C20: when a callback of a session throws while it is given an event, every
\* other callback of the session is still called with that event and writes
\* its frames, the session records the event as usual, and every callback,
\* one that threw earlier included, is called with the later events.
C20_ThrowingCallbackIsolated ==
  emitted # NoEmit =>
    LET s == emitted.sid
        healthy == emitted.registered - Cardinality(emitted.threw)
        open == {w \in emitted.subs : wsState[w] = "open"}
        written == {j \in DOMAIN out : out[j].kind = "event"}
    IN  /\ emitted.called = 1 .. emitted.registered
        /\ Cardinality(written) >= emitted.n * healthy * Cardinality(open)
        /\ Len(events[s]) = emitted.first + emitted.n - 1

\* The first callback of a session throws on an event, the second one, which
\* threw on an earlier event, is called with it and writes a frame.
C20_Witness ==
  /\ emitted # NoEmit
  /\ emitted.threw = {1}
  /\ thrown[emitted.sid] = {1, 2}
  /\ emitted.registered = 2
  /\ 2 \in emitted.called
  /\ \E j \in DOMAIN out : out[j].kind = "event"

\* C15 as stated: deleted and failed together are exactly the requested ids
\* and share none, every requested id is answered (no failure ends the
\* batch), a deleted id has no transcript afterwards, and the transcript of an
\* id that was not requested is still there.
C15_DeletedFailedPartition ==
  call.fn = "deleteSessions" =>
    /\ Range(call.deleted) \cup Range(call.failed) = Range(call.ids)
    /\ Range(call.deleted) \cap Range(call.failed) = {}
    /\ Len(call.deleted) + Len(call.failed) = Len(call.ids)
    /\ \A x \in Range(call.deleted) : x \notin call.after
    /\ \A x \in call.before \ Range(call.ids) : x \in call.after

\* C16 as stated: the id that encodes a path, resolved on a filesystem that
\* holds exactly the directories of that path, gives the path back.
C16_EncodeThenResolve ==
  call.fn = "resolveProjectPath" => call.resolved = call.path

\* The plugin is listed in the configuration, the agent is listed under it.
PluginListed == call.plugin \in DOMAIN call.config
AgentListed ==
  /\ call.config[call.plugin].hasAgents
  /\ call.agent \in DOMAIN call.config[call.plugin].agents

LoadableDirs ==
  {i \in DOMAIN call.dirs :
     /\ call.dirs[i].fails = "none"
     /\ call.dirs[i].name \in DOMAIN call.config
          => call.config[call.dirs[i].name].enabled}

\* C18: discover() registers exactly the directories that are valid and
\* enabled, each once: a directory that fails at any step is not registered
\* and keeps no other directory from being registered, wherever it stands in
\* the order of the scan.
C18_FailuresAreSkipped ==
  call.fn = "discover" =>
    /\ Range(call.registrations) = LoadableDirs
    /\ Len(call.registrations) = Cardinality(LoadableDirs)
    /\ DOMAIN call.registry = {call.dirs[i].name : i \in LoadableDirs}
    /\ call.loaded = DOMAIN call.registry

\* The first directory scanned fails in initialize(), the second one is valid
\* and has been registered.
C18_Witness ==
  /\ call.fn = "discover"
  /\ Len(call.dirs) = 2
  /\ call.dirs[1].fails = "initializeThrows"
  /\ call.registrations = << 2 >>
  /\ call.dirs[2].name \in DOMAIN call.registry

\* C19 as stated: a directory whose manifest declares an agent id twice is
\* not registered, and the agent ids of every registered plugin are pairwise
\* distinct.
C19_DuplicateAgentIdsRejected ==
  call.fn = "discover" =>
    /\ \A i \in Range(call.registrations) :
         LET ids == call.dirs[i].agents
         IN  \A j, k \in DOMAIN ids : ids[j] = ids[k] => j = k
    /\ \A n \in DOMAIN call.registry :
         Cardinality(Range(call.registry[n])) = Len(call.registry[n])

\* The session.event frames the last step wrote to socket w for session sid,
\* in the order they were written.
EventFramesTo(w, sid) ==
  SelectSeq(out, LAMBDA f : f.kind = "event" /\ f.to = w /\ f.sid = sid)

\* C21 as stated: the events of a session reach each socket in the order the
\* session emitted them, none of them twice: the frames a step writes to a
\* socket carry strictly increasing positions of the session's log, all of
\* them positions of the events that step emitted.
C21_DeliveredInEmissionOrder ==
  \A w \in Sockets : \A s \in SessionIds :
    LET fr == EventFramesTo(w, s)
    IN  /\ \A i, j \in DOMAIN fr : i < j => fr[i].idx < fr[j].idx
        /\ \A i \in DOMAIN fr :
             /\ emitted.sid = s
             /\ fr[i].idx \in emitted.first .. (emitted.first + emitted.n - 1)

\* The session the last agent.invoke constructed.
Started == nextId - 1

\* The last request was answered with an error and with no result.
Rejected ==
  /\ \E j \in Responses : out[j].kind = "error"
  /\ \A j \in Responses : out[j].kind # "result"

\* C22 as stated: an agent.invoke whose project path and whose corrected path
\* are both missing leaves the session in state error with an error event
\* emitted and no subprocess, and is answered with an error.
C22_MissingPathRejects ==
  request.start = "path missing" =>
    /\ state[Started] = "error"
    /\ \E i \in DOMAIN events[Started] : events[Started][i].type = "error"
    /\ proc[Started] = "none" /\ ~ptyProcess[Started]
    /\ Rejected

\* C23 as stated: an agent.invoke that finds no CLI binary leaves the session
\* in state error with an error event emitted and no subprocess, and is
\* answered with an error.
C23_MissingBinaryRejects ==
  request.start = "binary not found" =>
    /\ state[Started] = "error"
    /\ \E i \in DOMAIN events[Started] : events[Started][i].type = "error"
    /\ proc[Started] = "none" /\ ~ptyProcess[Started]
    /\ Rejected

\* Session s has emitted its complete event.
Completed(s) == s \in SessionIds /\ Count(events[s], "complete") > 0

\* C24 as stated: session.message addressed to a session whose subprocess has
\* completed is answered success:false with the error that tells the caller to
\* create a new session with resume.
C24_CompletedGetsResumeHint ==
  (request.method = "session.message" /\ Completed(request.sid)) =>
    /\ Len(out) = 1
    /\ ~out[1].ok
    /\ out[1].error = ResumeHint

\* C24, amended: the step that receives a session.message for a completed
\* session answers success:false, with the resume error when the session is
\* still in the registry's and the plugin's map and with the not-found error
\* when a stop has removed it; it signals no subprocess and changes no
\* session, registry or subscription state.
C24_CompletedMessageRefused ==
  [][ (request'.method = "session.message" /\ Completed(request'.sid)) =>
        /\ out' = << MessageResult(request'.ws, request'.id,
                       [success |-> FALSE,
                        error |-> IF /\ request'.sid \in sessionToPlugin
                                     /\ request'.sid \in sessions
                                  THEN ResumeHint ELSE NotFound]) >>
        /\ UNCHANGED << transportVars, registryVars, sessionVars, procVars,
                        pending, events, emitterVars >>
    ]_vars

\* A session.message for a session that completed on its own, and is still
\* registered, has been answered with the resume error.
C24_Witness ==
  /\ request.method = "session.message"
  /\ Completed(request.sid)
  /\ request.sid \in sessionToPlugin
  /\ proc[request.sid] = "reaped"
  /\ Len(out) = 1 /\ ~out[1].ok /\ out[1].error = ResumeHint

\* C25 as stated: when a session emits an event, the registry has already
\* recorded the session in its session-to-plugin map.
C25_RecordedBeforeFirstEvent ==
  emitted # NoEmit => emitted.recorded

\* C26: the step that receives a session.stop for an id the registry's
\* session-to-plugin map does not hold answers success:true at once, sends no
\* signal, starts no stop(), emits no session:ended, and leaves the registry's
\* and the plugin's tables and every session as they were.
C26_StopOfUnknownIsNoop ==
  [][ (request'.method = "session.stop" /\ request'.sid \notin sessionToPlugin) =>
        /\ out' = << Result(request'.ws, request'.id, NoSession, 0, TRUE) >>
        /\ UNCHANGED << registryVars, sessionVars, procVars, pending, ended >>
    ]_vars

\* A session.stop for an id no session has was answered with success while a
\* subprocess runs unsignalled.
C26_Witness ==
  /\ request.method = "session.stop"
  /\ request.sid = UnknownSession
  /\ Len(out) = 1 /\ out[1].kind = "result" /\ out[1].ok
  /\ \E s \in SessionIds : proc[s] = "alive" /\ signals[s] = {}

\* The transition graph of the specification: the chain initializing, ready,
\* processing, idle, stopped, with error and stopped reachable from anywhere.
\* A session that is not constructed yet is taken as initializing, the state
\* its constructor gives it.
StateRank(st) ==
  CASE st \in {"none", "initializing"} -> 0
    [] st = "ready" -> 1
    [] st = "processing" -> 2
    [] st = "idle" -> 3
    [] OTHER -> 4
OnChain(st) == st \in {"none", "initializing", "ready", "processing", "idle"}
LegalEdge(from, to) ==
  \/ to \in {"error", "stopped"}
  \/ OnChain(from) /\ OnChain(to) /\ StateRank(to) \in {StateRank(from), StateRank(from) + 1}
LegalPath(from, to) ==
  \/ to \in {"error", "stopped"}
  \/ OnChain(from) /\ OnChain(to) /\ StateRank(to) >= StateRank(from)

\* C27 as stated: every change of a session's state is an edge of that graph
\* (a path of it, for a step that handles a chunk of several lines): the
\* session leaves initializing only by parsing an init record, which makes it
\* ready, and never moves backwards.
C27_LegalTransitions ==
  [][ \A s \in SessionIds :
        IF chunks'[s] # chunks[s]
        THEN LegalPath(state[s], state'[s])
        ELSE LegalEdge(state[s], state'[s])
    ]_vars

\* C28 as stated: a session whose live subprocess stop() has signalled is in
\* state stopped from then on.
C28_StoppedStaysStopped ==
  \A s \in SessionIds : "SIGTERM" \in signals[s] => state[s] = "stopped"

\* C29 as stated: a session holds at most one fan-out callback of the
\* transport at any time.
C29_OneFanOutCallback ==
  \A s \in SessionIds : Len(callbacks[s]) <= 1

\* C30 as stated: the subscription table holds no entry for a session that has
\* emitted its complete event or for which a session.stop has resolved.
C30_NoEntryForTerminated ==
  \A s \in SessionIds :
    (Completed(s) \/ s \in stopDone) => s \notin DOMAIN sessionSubscriptions

C32_WriteFailureIsolated ==
  emitted.threw # {} =>
    \E w \in emitted.subs :
      /\ \A v \in emitted.subs \ {w} :
           wsState[v] = "open" =>
             \E j \in DOMAIN out : /\ out[j].kind = "event"
                                   /\ out[j].to = v
                                   /\ out[j].idx = emitted.first
      /\ emitted.sid \in DOMAIN sessionSubscriptions =>
           w \notin sessionSubscriptions[emitted.sid]

\* The grace timer of a stop() of session s fires in this step.
TimerFires(s) ==
  /\ pending # << >>
  /\ Head(pending).sid = s
  /\ pending' = Tail(pending)

\* A session.stop of session s, known to the registry and the plugin, returns
\* in the step of the request, without a grace timer.
StopReturnsAtOnce(s) ==
  /\ request'.method = "session.stop"
  /\ request'.sid = s
  /\ s \in sessions
  /\ GetPluginForSession(s)
  /\ pending' = pending

C34_CompleteReachesSubscribers ==
  (/\ emitted.n > 0
   /\ "SIGTERM" \in signals[emitted.sid]
   /\ events[emitted.sid][emitted.first + emitted.n - 1].type = "complete") =>
    \A w \in emitted.subs :
      wsState[w] = "open" =>
        \E j \in DOMAIN out : /\ out[j].kind = "event"
                              /\ out[j].to = w
                              /\ out[j].sid = emitted.sid
                              /\ out[j].idx = emitted.first + emitted.n - 1

\* C35: once every session.stop of a session has resolved, overlapping ones
\* included, the session is in neither the plugin's nor the registry's map and
\* session:ended has been emitted exactly once for it.
C35_OverlappingStopsEndOnce ==
  \A s \in stopDone :
    (\A i \in DOMAIN pending : pending[i].sid # s) =>
      /\ s \notin sessions
      /\ s \notin sessionToPlugin
      /\ ended[s] = 1

\* C36: when the exit of the subprocess is handled while the line buffer holds
\* a non-empty partial line, that step emits an output event with the residue
\* as raw payload.
C36_ResidueEmittedAtExit ==
  [][\A s \in SessionIds :
       (/\ proc'[s] = "reaped"
        /\ proc[s] # "reaped"
        /\ Trim(lineBuffer[s]) # << >>) =>
         \E i \in (Len(events[s]) + 1) .. Len(events'[s]) :
           /\ events'[s][i].type = "output"
           /\ events'[s][i].raw
           /\ events'[s][i].line \in {lineBuffer[s], Trim(lineBuffer[s])}
    ]_vars

\* The non-empty trimmed lines of a list of lines.
RECURSIVE Dispatched(_)
Dispatched(lines) ==
  IF lines = << >> THEN << >>
  ELSE (IF Trim(Head(lines)) = << >> THEN << >> ELSE << Trim(Head(lines)) >>)
       \o Dispatched(Tail(lines))

\* The output delivered by the first k chunks.
RECURSIVE Concat(_, _)
Concat(chunkSeq, k) ==
  IF k = 0 THEN << >> ELSE Concat(chunkSeq, k - 1) \o chunkSeq[k]

\* C37: however the output is cut into chunks, after each chunk the lines
\* processed so far are the non-empty newline-terminated lines of the output
\* delivered so far, in order and once each, and the line buffer is its
\* unterminated rest: what is dispatched depends on the concatenation only.
C37_ChunkingInvariant ==
  call.fn = "handleData" =>
    \A k \in DOMAIN call.chunks :
      LET sp == Split(Concat(call.chunks, k), << >>, << >>)
          ev == call.after[k].S.ev
      IN  /\ call.after[k].buffer = sp.rest
          /\ [i \in DOMAIN ev |-> ev[i].line] = Dispatched(sp.lines)

\* A line cut in two: nothing is processed at the first chunk, the line is
\* processed once at the chunk that brings its newline.
C37_Witness ==
  /\ call.fn = "handleData"
  /\ Len(call.chunks) = 2
  /\ call.stream = << "CR", "X", "NL", "A" >>
  /\ call.after[1].S.ev = << >>
  /\ Len(call.after[2].S.ev) = 1
  /\ call.after[2].buffer = << "A" >>

\* C38: every entry of the legacy session registry is for a subprocess that
\* has not exited; in particular the 10 s timer registers no temporary id for
\* a subprocess that has exited, it rejects.
C38_LegacyEntriesAreLive ==
  call.fn = "spawnClaude" =>
    /\ call.sessions # {} => call.child = "running"
    /\ (call.timer = "fired" /\ call.child = "exited" /\ call.sessionId \in {0, TempId})
         => call.outcome = "rejected"

\* The parts a list of names stands for under the encoding: '_' read as '-',
\* split at the dashes, empty parts dropped, case ignored.
RECURSIVE PartsOf(_)
PartsOf(names) ==
  IF names = << >> THEN << >>
  ELSE LET ep == FilterNonEmpty(EntryParts(Head(names)))
       IN  [i \in DOMAIN ep |-> ToLowerCase(ep[i])] \o PartsOf(Tail(names))

NotJson(line) == ~ParseOK(line)
IsRaw(e) == e.raw
NotRaw(e) == ~e.raw

\* C40: in every step that handles a chunk of output, each non-empty line that
\* is not JSON makes exactly one output event, with raw payload the trimmed
\* line, in its place among the events of the other lines; state, upstream id
\* and the events of the other lines are what they are without the non-JSON
\* lines, and the callbacks and the subscription table are unchanged.
C40_NonJsonLineIsRawOutput ==
  [][\A s \in SessionIds :
       chunks'[s] # chunks[s] =>
         \E data \in LineChunks :
           LET sp == Split(lineBuffer[s] \o data, << >>, << >>)
               lines == Dispatched(sp.lines)
               new == SubSeq(events'[s], Len(events[s]) + 1, Len(events'[s]))
               raws == SelectSeq(new, IsRaw)
               clean == ProcessLines([st |-> state[s], cid |-> claudeSessionId[s],
                                      ev |-> << >>],
                                     SelectSeq(lines, ParseOK))
           IN  /\ lineBuffer'[s] = sp.rest
               /\ raws = [i \in DOMAIN SelectSeq(lines, NotJson) |->
                            Event("output", SelectSeq(lines, NotJson)[i], TRUE, 0, NoExit)]
               /\ SelectSeq(new, NotRaw) = clean.ev
               /\ [i \in DOMAIN SelectSeq(new, LAMBDA e : e.type = "output") |->
                     SelectSeq(new, LAMBDA e : e.type = "output")[i].line] = lines
               /\ state'[s] = clean.st
               /\ claudeSessionId'[s] = clean.cid
               /\ UNCHANGED << callbacks, sessionSubscriptions >>
    ]_vars

\* A chunk with a non-JSON line between whitespace and then a JSON line has
\* been handled: one raw output event, then the assistant line's event and state.
C40_Witness ==
  \E s \in SessionIds :
    /\ Len(events[s]) = 2
    /\ events[s][1] = Event("output", << "X" >>, TRUE, 0, NoExit)
    /\ ~events[s][2].raw
    /\ state[s] = "processing"
    /\ callbacks[s] # << >>

====
